---------------------------- MODULE Spec2Model ----------------------------
(***************************************************************************)
(* Model of the audio particle system: js/particle-system.js (Particle,    *)
(* SpatialHash, ParticleSystem with its four physics modes), the           *)
(* renderer's LOD call and the MIDI controller's mappings and control      *)
(* writes.                                                                 *)
(*                                                                         *)
(* Numbers.  A JavaScript Number that holds a real quantity is modelled as *)
(* a fixed-point integer with FP units per 1.0 (1.0 is FP, the life decay  *)
(* 0.01 is FP \div 100).  Products and quotients are rounded down to the   *)
(* next unit.  Counts and indices are plain integers.  The LOD sampler is  *)
(* computed with exact rationals (numerator over CCMax).  Math.sin and     *)
(* Math.cos are approximated to within 0.002.                              *)
(***************************************************************************)
EXTENDS Integers, Sequences, FiniteSets, TLC

(***************************************************************************)
(* Bounds of the model                                                     *)
(***************************************************************************)
\* pool capacity passed to the constructor in Spec, SpecLife, SpecBoundary
MaxParticles == 2
\* number of update calls explored by the bounded specifications
MaxTime == 3
\* largest count passed to emit (in whole particles)
MaxEmit == 2
\* the longest listener array of one event
MaxListeners == 2

\* the end-to-end scenario: capacity, particles emitted, update calls
ScenarioCapacity == 10
ScenarioEmitted == 5
ScenarioUpdates == 250
\* pool capacity passed to the constructor in SpecLOD
LodCapacity == 110
\* the count passed to every emit of SpecLOD
LodBatch == 36

(***************************************************************************)
(* Fixed-point arithmetic                                                  *)
(***************************************************************************)
FP == 1000

\* Math.PI
PI == 3142

Mul(a, b) == (a * b) \div FP

Div(a, b) == (a * FP) \div b

Max(a, b) == IF a >= b THEN a ELSE b

Min(a, b) == IF a <= b THEN a ELSE b

\* JavaScript's % : the remainder takes the sign of the dividend
JsRem(a, b) == IF a >= 0 THEN a % b ELSE -((-a) % b)

\* Math.sqrt of a product of two fixed-point numbers, rounded down: the
\* largest r in lo..hi with r * r <= n
RECURSIVE SqrtBetween(_, _, _)
SqrtBetween(n, lo, hi) ==
    IF lo >= hi THEN lo
    ELSE LET mid == (lo + hi + 1) \div 2
         IN IF mid * mid <= n THEN SqrtBetween(n, mid, hi)
            ELSE SqrtBetween(n, lo, mid - 1)

MathSqrt(n) == SqrtBetween(n, 0, 46340)

\* Math.sin of an angle in radians, to within 0.002 (Bhaskara's rational
\* approximation on [0, PI], extended by sin(t + PI) = -sin(t))
HalfWave(t) ==
    (((16 * t * (PI - t)) \div 100) * FP)
        \div ((5 * PI * PI - 4 * t * (PI - t)) \div 100)

MathSin(a) ==
    LET t == a % (2 * PI)
    IN IF t <= PI THEN HalfWave(t) ELSE -HalfWave(t - PI)

\* Math.cos(a) = sin(a + PI / 2)
MathCos(a) == MathSin(a + PI \div 2)

\* the life lost per unit of deltaTime (0.01)
LifeDecay == FP \div 100

\* the damping factor ParticleSystem.update passes to bounce (0.8)
BounceDamping == (FP * 8) \div 10

\* SpatialHash cell size given by the ParticleSystem constructor
CellSize == 50

\* a MIDI data byte is divided by 127
CCMax == 127

(***************************************************************************)
(* Particle                                                                *)
(***************************************************************************)
\* new Particle()
NewParticle ==
    [x |-> 0, y |-> 0, vx |-> 0, vy |-> 0, ax |-> 0, ay |-> 0,
     size |-> 2 * FP, life |-> FP, maxLife |-> FP, hue |-> 0,
     saturation |-> 100 * FP, lightness |-> 50 * FP, alpha |-> FP,
     active |-> FALSE, mass |-> FP, angle |-> 0, angularVelocity |-> 0]

\* Particle.init; rAngle and rSpin are its two Math.random() draws
ParticleInit(p, x, y, vx, vy, size, life, hue, rAngle, rSpin) ==
    [p EXCEPT !.x = x, !.y = y, !.vx = vx, !.vy = vy, !.ax = 0, !.ay = 0,
              !.size = size, !.life = life, !.maxLife = life, !.hue = hue,
              !.saturation = 100 * FP, !.lightness = 50 * FP, !.alpha = FP,
              !.active = TRUE, !.mass = Mul(size, FP \div 10),
              !.angle = Mul(Mul(rAngle, PI), 2 * FP),
              !.angularVelocity = Mul(rSpin - FP \div 2, FP \div 10)]

\* a Particle.update that tests life before it decreases it
ParticleUpdateLate(p, deltaTime) ==
    IF ~p.active THEN p
    ELSE LET vx   == p.vx + Mul(p.ax, deltaTime)
             vy   == p.vy + Mul(p.ay, deltaTime)
             life == p.life - Mul(LifeDecay, deltaTime)
         IN [p EXCEPT !.vx = vx, !.vy = vy,
                      !.x = p.x + Mul(vx, deltaTime),
                      !.y = p.y + Mul(vy, deltaTime),
                      !.angle = p.angle + Mul(p.angularVelocity, deltaTime),
                      !.life = life,
                      !.alpha = Max(0, Div(life, p.maxLife)),
                      !.active = ~(p.life <= 0),
                      !.ax = 0, !.ay = 0]

\* Particle.update without the decrease of life
ParticleUpdateNoDecay(p, deltaTime) ==
    IF ~p.active THEN p
    ELSE LET vx   == p.vx + Mul(p.ax, deltaTime)
             vy   == p.vy + Mul(p.ay, deltaTime)
         IN [p EXCEPT !.vx = vx, !.vy = vy,
                      !.x = p.x + Mul(vx, deltaTime),
                      !.y = p.y + Mul(vy, deltaTime),
                      !.angle = p.angle + Mul(p.angularVelocity, deltaTime),
                      !.alpha = Max(0, Div(p.life, p.maxLife)),
                      !.active = ~(p.life <= 0),
                      !.ax = 0, !.ay = 0]

\* Particle.update without the reset of the acceleration
ParticleUpdateKeepsForce(p, deltaTime) ==
    IF ~p.active THEN p
    ELSE LET vx   == p.vx + Mul(p.ax, deltaTime)
             vy   == p.vy + Mul(p.ay, deltaTime)
             life == p.life - Mul(LifeDecay, deltaTime)
         IN [p EXCEPT !.vx = vx, !.vy = vy,
                      !.x = p.x + Mul(vx, deltaTime),
                      !.y = p.y + Mul(vy, deltaTime),
                      !.angle = p.angle + Mul(p.angularVelocity, deltaTime),
                      !.life = life,
                      !.alpha = Max(0, Div(life, p.maxLife)),
                      !.active = ~(life <= 0)]

\* update's audio block reading sub-bass where the code reads bass
AudioForcesSubBass(p, audioBands) ==
    IF audioBands.present /\ Len(audioBands.data) = 7
    THEN [p EXCEPT !.vy = p.vy + Mul(audioBands.data[1], FP \div 2),
                   !.vx = p.vx + Mul(audioBands.data[6] - FP \div 2, (FP * 3) \div 10),
                   !.size = Mul(p.size, FP + Mul(audioBands.data[4], FP \div 5))]
    ELSE p

\* Particle.update(width, height, deltaTime)
ParticleUpdate(p, deltaTime) ==
    IF ~p.active THEN p
    ELSE LET vx   == p.vx + Mul(p.ax, deltaTime)
             vy   == p.vy + Mul(p.ay, deltaTime)
             life == p.life - Mul(LifeDecay, deltaTime)
         IN [p EXCEPT !.vx = vx, !.vy = vy,
                      !.x = p.x + Mul(vx, deltaTime),
                      !.y = p.y + Mul(vy, deltaTime),
                      !.angle = p.angle + Mul(p.angularVelocity, deltaTime),
                      !.life = life,
                      !.alpha = Max(0, Div(life, p.maxLife)),
                      !.active = ~(life <= 0),
                      !.ax = 0, !.ay = 0]

\* an applyForce that adds the force without dividing by the mass
applyForceNoMass(p, fx, fy) ==
    [p EXCEPT !.ax = p.ax + fx, !.ay = p.ay + fy]

\* Particle.applyForce(fx, fy)
applyForce(p, fx, fy) ==
    [p EXCEPT !.ax = p.ax + Div(fx, p.mass), !.ay = p.ay + Div(fy, p.mass)]

\* a bounce that damps the velocity without reversing it
bounceNoFlip(p, w, h, damping) ==
    LET px == IF p.x < 0 THEN [p EXCEPT !.x = 0, !.vx = Mul(p.vx, damping)]
              ELSE IF p.x > w THEN [p EXCEPT !.x = w, !.vx = Mul(p.vx, damping)]
              ELSE p
    IN IF px.y < 0 THEN [px EXCEPT !.y = 0, !.vy = Mul(px.vy, damping)]
       ELSE IF px.y > h THEN [px EXCEPT !.y = h, !.vy = Mul(px.vy, damping)]
       ELSE px

\* Particle.bounce(width, height, damping)
bounce(p, w, h, damping) ==
    LET px == IF p.x < 0 THEN [p EXCEPT !.x = 0, !.vx = Mul(p.vx, -damping)]
              ELSE IF p.x > w THEN [p EXCEPT !.x = w, !.vx = Mul(p.vx, -damping)]
              ELSE p
    IN IF px.y < 0 THEN [px EXCEPT !.y = 0, !.vy = Mul(px.vy, -damping)]
       ELSE IF px.y > h THEN [px EXCEPT !.y = h, !.vy = Mul(px.vy, -damping)]
       ELSE px

\* a wrap that sends a particle to the edge it has just crossed
wrapNearEdge(p, w, h) ==
    LET p1 == IF p.x < 0 THEN [p EXCEPT !.x = 0] ELSE p
        p2 == IF p1.x > w THEN [p1 EXCEPT !.x = w] ELSE p1
        p3 == IF p2.y < 0 THEN [p2 EXCEPT !.y = 0] ELSE p2
    IN IF p3.y > h THEN [p3 EXCEPT !.y = h] ELSE p3

\* Particle.wrap(width, height): four independent ifs, in this order
wrap(p, w, h) ==
    LET p1 == IF p.x < 0 THEN [p EXCEPT !.x = w] ELSE p
        p2 == IF p1.x > w THEN [p1 EXCEPT !.x = 0] ELSE p1
        p3 == IF p2.y < 0 THEN [p2 EXCEPT !.y = h] ELSE p2
    IN IF p3.y > h THEN [p3 EXCEPT !.y = 0] ELSE p3


(***************************************************************************)
(* State                                                                   *)
(***************************************************************************)
VARIABLES
    maxParticles,         \* ParticleSystem.maxParticles
    particlePool,         \* ParticleSystem.particlePool: sequence of particles
    spatialHash,          \* SpatialHash.grid: cell key -> sequence of pool slots
    physics,              \* ParticleSystem.physics
    emission,             \* ParticleSystem.emission
    audioReactive,        \* ParticleSystem.audioReactive
    width, height,        \* ParticleSystem.width, .height
    activeParticleCount,  \* ParticleSystem.activeParticleCount
    time,                 \* ParticleSystem.time
    params,               \* Renderer.params
    mappings,             \* MIDIController.mappings: cc -> mapping
    learn,                \* MIDIController.learnMode, learnParameter, learnCallback
    activity,             \* MIDIController.lastCC, lastValue
    events,               \* EventEmitter.events: event name -> sequence of listeners
    audio,                \* AudioEngine: isInitialized, isPlaying, source, bands
    drawn,                \* the particle list Renderer.render drew last (pool slots)
    lastCall,             \* history: the call that produced this state
    born,                 \* history: per slot, the value of time when it was spawned
    preBoundary           \* history: the pool of the last update before the boundary pass

vars == <<maxParticles, particlePool, spatialHash, physics, emission,
          audioReactive, width, height, activeParticleCount, time, params,
          mappings, learn, activity, events, audio, drawn, lastCall, born,
          preBoundary>>

engineConfig == <<physics, emission, audioReactive, width, height>>

midi == <<mappings, learn, activity>>

\* the particle engine and the renderer
engineState == <<maxParticles, particlePool, spatialHash, engineConfig,
                 activeParticleCount, time, params, drawn, born, preBoundary>>

\* the audioBands argument null; an array is [present |-> TRUE, data |-> it]
NoBands == [present |-> FALSE, data |-> <<>>]

Bands(data) == [present |-> TRUE, data |-> data]

(***************************************************************************)
(* ParticleSystem                                                          *)
(***************************************************************************)
\* the constructor's loop pushing maxParticles new particles
NewPool(n) == [i \in 1..n |-> NewParticle]

\* ParticleSystem.getActiveParticles: the filter keeps the active slots in
\* pool order
getActiveParticles(pool) ==
    SelectSeq([i \in 1..Len(pool) |-> i], LAMBDA i : pool[i].active)

\* the scan of getParticle from slot 1: the first inactive slot, 0 when the
\* loop runs off the end of the pool
FirstInactiveFrom(pool, from) ==
    IF \E i \in from..Len(pool) : ~pool[i].active
    THEN CHOOSE i \in from..Len(pool) :
             /\ ~pool[i].active
             /\ \A j \in from..(i - 1) : pool[j].active
    ELSE 0

\* a getParticle that recycles the first slot when none is free
getParticleEvict(pool) ==
    [pool |-> pool,
     slot |-> IF FirstInactiveFrom(pool, 1) = 0 /\ Len(pool) > 0 THEN 1
              ELSE FirstInactiveFrom(pool, 1)]

\* a getParticle that pushes a new particle when none is free
getParticleGrow(pool) ==
    IF FirstInactiveFrom(pool, 1) = 0
    THEN [pool |-> Append(pool, NewParticle), slot |-> Len(pool) + 1]
    ELSE [pool |-> pool, slot |-> FirstInactiveFrom(pool, 1)]

\* ParticleSystem.getParticle: the pool as the call leaves it and the first
\* inactive slot, 0 for null
getParticle(pool) == [pool |-> pool, slot |-> FirstInactiveFrom(pool, 1)]

\* cos and sin of Math.random() * 2 * PI, for the quarter turns
Cos(r) == CASE r = 0 -> FP [] r = FP \div 4 -> 0
            [] r = FP \div 2 -> -FP [] r = 3 * (FP \div 4) -> 0

Sin(r) == CASE r = 0 -> 0 [] r = FP \div 4 -> FP
            [] r = FP \div 2 -> 0 [] r = 3 * (FP \div 4) -> -FP

\* the body of emit's loop for one acquired particle; d holds the
\* Math.random() draws of the iteration in the order the code makes them
Spawn(p, d, audioEnergy) ==
    LET x == Mul(emission.x, width) + Mul(Mul(d.rx - FP \div 2, emission.spread), width)
        y == Mul(emission.y, height) + Mul(Mul(d.ry - FP \div 2, emission.spread), height)
        speed == emission.velocityMin
                   + Mul(d.rspeed, emission.velocityMax - emission.velocityMin)
        speedMultiplier == FP + Mul(audioEnergy, audioReactive.velocityMultiplier)
        vx == Mul(Mul(Cos(d.rdir), speed), speedMultiplier)
        vy == Mul(Mul(Sin(d.rdir), speed), speedMultiplier)
        size == emission.sizeMin + Mul(d.rsize, emission.sizeMax - emission.sizeMin)
        sizeMultiplier == FP + Mul(audioEnergy, audioReactive.sizeMultiplier)
        actualSize == Mul(size, sizeMultiplier)
        life == emission.lifeMin + Mul(d.rlife, emission.lifeMax - emission.lifeMin)
        hue == JsRem(emission.hue + Mul(d.rhue - FP \div 2, emission.hueVariation)
                       + audioReactive.hueShift, 360 * FP)
    IN ParticleInit(p, x, y, vx, vy, actualSize, life, hue, d.rangle, d.rspin)

\* actualCount with Math.round in place of Math.floor
ActualCountRounded(count, audioEnergy) ==
    (Mul(count, FP + Mul(audioEnergy, audioReactive.emissionMultiplier))
     + FP \div 2) \div FP

\* emit's actualCount; count and audioEnergy are fixed-point
ActualCount(count, audioEnergy) ==
    Mul(count, FP + Mul(audioEnergy, audioReactive.emissionMultiplier)) \div FP

\* emit's loop from iteration i (1-based) on
RECURSIVE EmitLoop(_, _, _, _, _)
EmitLoop(pool, i, actualCount, audioEnergy, draws) ==
    IF i > actualCount THEN pool
    ELSE LET got == getParticle(pool)
         IN IF got.slot = 0 THEN got.pool
            ELSE EmitLoop([got.pool EXCEPT ![got.slot] =
                               Spawn(got.pool[got.slot], draws[i], audioEnergy)],
                          i + 1, actualCount, audioEnergy, draws)

\* ParticleSystem.applyGravity
applyGravity(p) == applyForce(p, physics.gravityX, physics.gravityY)

\* ParticleSystem.applyMagnetism; dx * dx + dy * dy is kept exact, so that
\* dist > 0 fails only for a particle exactly at the magnet
applyMagnetism(p) ==
    LET dx == physics.magnetX - p.x
        dy == physics.magnetY - p.y
        distSq == dx * dx + dy * dy
        dist == MathSqrt(distSq)
        force == Div(Mul(physics.magnetismStrength, p.mass),
                     distSq \div FP + 100 * FP)
    IN IF dist > 0
       THEN applyForce(p, Mul(Div(dx, dist), force), Mul(Div(dy, dist), force))
       ELSE p

\* ParticleSystem.applyTurbulence; t is this.time, already incremented
applyTurbulence(p, t) ==
    LET freq == physics.turbulenceFrequency
        phase == t * (FP \div 100)
        noiseX == Mul(MathSin(Mul(p.x, freq) + phase), MathCos(Mul(p.y, freq)))
        noiseY == Mul(MathCos(Mul(p.x, freq)), MathSin(Mul(p.y, freq) + phase))
    IN applyForce(p, Mul(noiseX, physics.turbulenceStrength),
                     Mul(noiseY, physics.turbulenceStrength))

\* the centripetal force of applyOrbital (0.01)
CentripetalForce == FP \div 100

\* an applyOrbital that pushes a particle at the centre as well
applyOrbitalUnguarded(p) ==
    LET dx == p.x - Mul(physics.orbitalCenterX, width)
        dy == p.y - Mul(physics.orbitalCenterY, height)
        dist == MathSqrt(dx * dx + dy * dy)
    IN IF dist > 0
       THEN applyForce(applyForce(p, Mul(Div(-dy, dist), physics.orbitalStrength),
                                     Mul(Div(dx, dist), physics.orbitalStrength)),
                       Mul(Div(-dx, dist), CentripetalForce),
                       Mul(Div(-dy, dist), CentripetalForce))
       ELSE applyForce(p, physics.orbitalStrength, CentripetalForce)

\* ParticleSystem.applyOrbital: the tangential force, then the centripetal
applyOrbital(p) ==
    LET dx == p.x - Mul(physics.orbitalCenterX, width)
        dy == p.y - Mul(physics.orbitalCenterY, height)
        dist == MathSqrt(dx * dx + dy * dy)
    IN IF dist > 0
       THEN applyForce(applyForce(p, Mul(Div(-dy, dist), physics.orbitalStrength),
                                     Mul(Div(dx, dist), physics.orbitalStrength)),
                       Mul(Div(-dx, dist), CentripetalForce),
                       Mul(Div(-dy, dist), CentripetalForce))
       ELSE p

ValidModes == {"gravity", "magnetism", "turbulence", "orbital"}

\* a switch whose default branch applies gravity
ModeForceDefaultGravity(p) ==
    CASE physics.mode = "magnetism" -> applyMagnetism(p)
      [] physics.mode = "turbulence" -> applyTurbulence(p, time + 1)
      [] physics.mode = "orbital" -> applyOrbital(p)
      [] OTHER -> applyGravity(p)

\* the switch on physics.mode in update, which runs after this.time++; no
\* case matches an unknown mode
ModeForce(p) ==
    CASE physics.mode = "gravity" -> applyGravity(p)
      [] physics.mode = "magnetism" -> applyMagnetism(p)
      [] physics.mode = "turbulence" -> applyTurbulence(p, time + 1)
      [] physics.mode = "orbital" -> applyOrbital(p)
      [] OTHER -> p

\* audio reactive forces applied to every vector of at least 7 bands
AudioForcesAnyLength(p, audioBands) ==
    IF audioBands.present /\ Len(audioBands.data) >= 7
    THEN [p EXCEPT !.vy = p.vy + Mul(audioBands.data[2], FP \div 2),
                   !.vx = p.vx + Mul(audioBands.data[6] - FP \div 2, (FP * 3) \div 10),
                   !.size = Mul(p.size, FP + Mul(audioBands.data[4], FP \div 5))]
    ELSE p

\* "Apply audio reactive forces": audioBands[1], [5], [3] (0-based)
AudioForces(p, audioBands) ==
    IF audioBands.present /\ Len(audioBands.data) = 7
    THEN [p EXCEPT !.vy = p.vy + Mul(audioBands.data[2], FP \div 2),
                   !.vx = p.vx + Mul(audioBands.data[6] - FP \div 2, (FP * 3) \div 10),
                   !.size = Mul(p.size, FP + Mul(audioBands.data[4], FP \div 5))]
    ELSE p

\* "Apply damping"
Damp(p) == [p EXCEPT !.vx = Mul(p.vx, physics.damping),
                     !.vy = Mul(p.vy, physics.damping)]

\* a loop body that damps the velocity after particle.update
IntegrateDampLast(p, deltaTime, audioBands) ==
    Damp(ParticleUpdate(AudioForces(ModeForce(p), audioBands), deltaTime))

\* update's loop body up to and including particle.update
Integrate(p, deltaTime, audioBands) ==
    ParticleUpdate(Damp(AudioForces(ModeForce(p), audioBands)), deltaTime)

\* "Handle boundaries"; a configuration switch is on when it is truthy
HandleBoundaries(p) ==
    IF physics.bounceEnabled # 0 THEN bounce(p, width, height, BounceDamping)
    ELSE IF physics.wrapEnabled # 0 THEN wrap(p, width, height)
    ELSE p

\* SpatialHash.getCellKey
getCellKey(x, y) == <<x \div (CellSize * FP), y \div (CellSize * FP)>>

\* SpatialHash.insert of pool slot i holding particle p
insert(grid, i, p) ==
    LET key == getCellKey(p.x, p.y)
    IN IF key \in DOMAIN grid
       THEN [grid EXCEPT ![key] = Append(grid[key], i)]
       ELSE [k \in DOMAIN grid \cup {key} |->
                IF k = key THEN <<i>> ELSE grid[k]]

\* the empty Map
EmptyGrid == [k \in {} |-> <<>>]

\* update's insertions, made for every slot that was active when its
\* iteration began, in slot order
RECURSIVE InsertFrom(_, _, _, _)
InsertFrom(grid, before, after, i) ==
    IF i > Len(before) THEN grid
    ELSE IF before[i].active
         THEN InsertFrom(insert(grid, i, after[i]), before, after, i + 1)
         ELSE InsertFrom(grid, before, after, i + 1)

\* Math.ceil(a / b) for b > 0
CeilDiv(a, b) == -((-a) \div b)

\* the buckets of the cells named by keys, in that order, one after another
RECURSIVE Gather(_, _, _)
Gather(grid, keys, n) ==
    IF n > Len(keys) THEN <<>>
    ELSE (IF keys[n] \in DOMAIN grid THEN grid[keys[n]] ELSE <<>>)
            \o Gather(grid, keys, n + 1)

\* the cells getNearby visits: dx in the outer loop, dy in the inner
CellsAround(centerCellX, centerCellY, cellRadius) ==
    LET side == 2 * cellRadius + 1
    IN [n \in 1..(side * side) |->
           <<centerCellX - cellRadius + (n - 1) \div side,
             centerCellY - cellRadius + ((n - 1) % side)>>]

\* a getNearby that rounds the cell radius down
getNearbyFloor(grid, x, y, radius) ==
    Gather(grid, CellsAround(x \div (CellSize * FP), y \div (CellSize * FP),
                             Max(0, radius \div (CellSize * FP))), 1)

\* SpatialHash.getNearby(x, y, radius): no cell is visited when cellRadius
\* is negative
getNearby(grid, x, y, radius) ==
    LET cellRadius == CeilDiv(radius, CellSize * FP)
    IN IF cellRadius < 0 THEN <<>>
       ELSE Gather(grid, CellsAround(x \div (CellSize * FP),
                                     y \div (CellSize * FP), cellRadius), 1)

\* ParticleSystem.getStats; utilization, a string of the percentage with
\* one decimal, is held in tenths of a percent, rounded to the nearest
getStats ==
    [activeParticles |-> activeParticleCount,
     maxParticles |-> maxParticles,
     utilization |-> (activeParticleCount * 1000 + maxParticles \div 2)
                        \div maxParticles]

\* active[index] of a JavaScript array (1-based here); 0 stands for undefined
ElementAt(active, index) == IF index \in DOMAIN active THEN active[index] ELSE 0

\* the sampling loop of getActiveParticlesLOD: i runs from 0 while
\* i < maxCount, step = n / maxCount, index = floor(i * step); maxCount is
\* fixed-point and the quotient is exact
Sampled(active, maxCount) ==
    LET n == Len(active)
        iterations == IF maxCount <= 0 THEN 0 ELSE (maxCount + FP - 1) \div FP
    IN [k \in 1..iterations |->
           ElementAt(active, (((k - 1) * n * FP) \div maxCount) + 1)]

\* a getActiveParticlesLOD that samples whatever the active count is
getActiveParticlesLODAlways(pool, maxCount) ==
    Sampled(getActiveParticles(pool), maxCount)

\* ParticleSystem.getActiveParticlesLOD(maxParticles)
getActiveParticlesLOD(pool, maxCount) ==
    LET active == getActiveParticles(pool)
    IN IF Len(active) * FP <= maxCount THEN active
       ELSE Sampled(active, maxCount)

(***************************************************************************)
(* MIDIController                                                          *)
(***************************************************************************)
\* new Map()
NoMappings == [cc \in {} |-> 0]

\* MIDIController.map(cc, parameter, object, min, max) on a mapping table;
\* parameter is the dotted path, split
MapCC(table, cc, parameter, object, min, max) ==
    [c \in DOMAIN table \cup {cc} |->
        IF c = cc THEN [parameter |-> parameter, object |-> object,
                        min |-> min, max |-> max]
        ELSE table[c]]

\* the mappings createDefaultMappings installs
DefaultMappings ==
    LET ps(sec, key, lo, hi) == [parameter |-> <<sec, key>>,
                                 object |-> "particleSystem", min |-> lo, max |-> hi]
        rn(key, lo, hi) == [parameter |-> <<"params", key>>,
                            object |-> "renderer", min |-> lo, max |-> hi]
    IN ( 1 :> ps("emission", "rate", FP, 50 * FP)
      @@ 2 :> ps("emission", "velocityMin", FP \div 10, 5 * FP)
      @@ 3 :> ps("emission", "velocityMax", FP, 10 * FP)
      @@ 4 :> ps("emission", "sizeMin", FP, 10 * FP)
      @@ 5 :> ps("emission", "sizeMax", 2 * FP, 20 * FP)
      @@ 6 :> ps("emission", "lifeMin", 50 * FP, 500 * FP)
      @@ 7 :> ps("emission", "lifeMax", 100 * FP, 1000 * FP)
      @@ 8 :> ps("emission", "spread", 0, FP)
      @@ 9 :> ps("emission", "hue", 0, 360 * FP)
      @@ 10 :> ps("emission", "hueVariation", 0, 180 * FP)
      @@ 11 :> ps("physics", "gravityY", -(FP \div 2), FP \div 2)
      @@ 12 :> ps("physics", "gravityX", -(FP \div 2), FP \div 2)
      @@ 13 :> ps("physics", "magnetismStrength", 0, 2 * FP)
      @@ 14 :> ps("physics", "turbulenceStrength", 0, FP)
      @@ 15 :> ps("physics", "turbulenceFrequency", FP \div 1000, FP \div 20)
      @@ 16 :> ps("physics", "orbitalStrength", 0, FP)
      @@ 17 :> ps("physics", "damping", (FP * 9) \div 10, FP)
      @@ 21 :> ps("audioReactive", "emissionMultiplier", 0, 5 * FP)
      @@ 22 :> ps("audioReactive", "sizeMultiplier", 0, 3 * FP)
      @@ 23 :> ps("audioReactive", "velocityMultiplier", 0, 3 * FP)
      @@ 24 :> ps("audioReactive", "hueShift", -(180 * FP), 180 * FP)
      @@ 30 :> rn("backgroundAlpha", 0, FP)
      @@ 31 :> rn("glowIntensity", 0, 5 * FP)
      @@ 32 :> rn("maxParticles", 100 * FP, 1000 * FP) )

\* the mapped value with the division rounding down at 128 steps
MappedValue128(mapping, value) ==
    mapping.min + (value * (mapping.max - mapping.min)) \div (CCMax + 1)

\* handleCC's mappedValue for a data byte value:
\* min + (value / 127) * (max - min), rounded down once
MappedValue(mapping, value) ==
    mapping.min + (value * (mapping.max - mapping.min)) \div CCMax

\* the methods every object literal inherits from Object.prototype: a
\* lookup of one of these names on a configuration object is not undefined
ObjectPrototype ==
    {"constructor", "hasOwnProperty", "isPrototypeOf", "propertyIsEnumerable",
     "toLocaleString", "toString", "valueOf"}

\* the record setParameter leaves behind when it is applied to record rec
\* reached by the path's first segment section: the final key is written
\* when current[finalKey] !== undefined, which holds for the record's own
\* fields and for the names it inherits; writing an inherited name creates
\* an own field
WriteField(rec, section, path, value, object, owner) ==
    IF object = owner /\ Len(path) = 2 /\ path[1] = section
       /\ (path[2] \in DOMAIN rec \/ path[2] \in ObjectPrototype)
    THEN [k \in DOMAIN rec \cup {path[2]} |->
             IF k = path[2] THEN value ELSE rec[k]]
    ELSE rec

\* the configuration objects reached by a path's first segment
Sections(object) ==
    IF object = "particleSystem" THEN {"physics", "emission", "audioReactive"}
    ELSE IF object = "renderer" THEN {"params"}
    ELSE {}

\* the other members a first segment finds on the target: own fields and
\* methods of the class
OtherMembers(object) ==
    IF object = "particleSystem"
    THEN {"maxParticles", "particles", "particlePool", "spatialHash", "width",
          "height", "activeParticleCount", "time", "setDimensions",
          "getParticle", "emit", "applyGravity", "applyMagnetism",
          "applyTurbulence", "applyOrbital", "update", "getActiveParticles",
          "getActiveParticlesLOD", "clear", "setPhysicsMode",
          "setEmissionPosition", "setMagnetPosition", "getStats"}
         \cup ObjectPrototype
    ELSE IF object = "renderer"
    THEN {"canvas", "ctx", "width", "height", "colorPalettes", "fps",
          "frameTime", "lastFrameTime", "frameTimes", "maxFrameTimes",
          "particlesRendered", "drawCalls"} \cup ObjectPrototype
    ELSE {}

\* the fields of the sections that hold a string, whose members (length,
\* the String methods) a longer path could reach
StringFields ==
    {<<"physics", "mode">>, <<"params", "blendMode">>,
     <<"params", "backgroundColor">>, <<"params", "particleShape">>,
     <<"params", "colorPalette">>}

\* the property names of the first pool slots, as a path spells them
SlotNames == <<"0", "1", "2">>

\* the pool slot a path segment names, 0 when it names none of the first
SlotNamed(name) ==
    IF \E k \in 1..Len(SlotNames) : SlotNames[k] = name
    THEN CHOOSE k \in 1..Len(SlotNames) : SlotNames[k] = name
    ELSE 0

\* a path through the engine's particlePool member to a numeric field of
\* one of its first slots, such as particlePool.0.x
PoolPath(path, object) ==
    /\ object = "particleSystem"
    /\ Len(path) = 3
    /\ path[1] = "particlePool"
    /\ SlotNamed(path[2]) # 0
    /\ path[3] \in DOMAIN NewParticle \ {"active"}

\* the pool setParameter leaves behind: the navigation loop follows
\* particlePool and the slot when the pool has that slot, and the final key
\* is a field of the particle, so it is written
WritePool(pool, path, value, object) ==
    IF PoolPath(path, object) /\ SlotNamed(path[2]) <= Len(pool)
    THEN [pool EXCEPT ![SlotNamed(path[2])][path[3]] = value]
    ELSE pool

\* the paths setParameter is modelled for: the first segment names a
\* section or nothing at all, the path does not replace a whole section and
\* does not continue below a field (a number or a boolean has no own
\* members, but inherits some)
Modelled(path, object) ==
    /\ Len(path) >= 1
    /\ path[1] \notin OtherMembers(object) \/ PoolPath(path, object)
    /\ path[1] \in Sections(object) => Len(path) >= 2
    /\ Len(path) >= 3 =>
          /\ <<path[1], path[2]>> \notin StringFields
          /\ path[3] \notin ObjectPrototype
          /\ path[2] \notin ObjectPrototype

\* MIDIController.setParameter(path, value, object) for a modelled path: a
\* path of one segment finds no member, a path of three or more segments
\* ends below a number, a boolean or nothing, and neither writes, unless
\* the path leads through particlePool to a particle's field
setParameter(path, value, object) ==
    /\ particlePool' = WritePool(particlePool, path, value, object)
    /\ physics' = WriteField(physics, "physics", path, value, object, "particleSystem")
    /\ emission' = WriteField(emission, "emission", path, value, object, "particleSystem")
    /\ audioReactive' = WriteField(audioReactive, "audioReactive", path, value,
                                   object, "particleSystem")
    /\ params' = WriteField(params, "params", path, value, object, "renderer")
    /\ UNCHANGED <<width, height>>

(***************************************************************************)
(* EventEmitter                                                            *)
(***************************************************************************)
\* this.events = {}
NoEvents == [e \in {} |-> <<>>]

\* the listeners registered for an event, none when the key is missing
ListenersOf(table, event) ==
    IF event \in DOMAIN table THEN table[event] ELSE <<>>

\* the functions the entries of a listener array stand for, in order
Functions(list) == [k \in 1..Len(list) |-> list[k].fn]

\* Array.prototype.splice(index, 1), index counted from 1
Splice(list, index) ==
    [k \in 1..(Len(list) - 1) |-> IF k < index THEN list[k] ELSE list[k + 1]]

\* listeners.indexOf(listener) counted from 1, 0 when absent: only an
\* entry registered with on holds the caller's function itself, an entry
\* registered with once holds a wrapper the caller never sees
IndexOf(list, listener) ==
    IF \E k \in 1..Len(list) : list[k].fn = listener /\ ~list[k].once
    THEN CHOOSE k \in 1..Len(list) :
            /\ list[k].fn = listener /\ ~list[k].once
            /\ \A j \in 1..(k - 1) : ~(list[j].fn = listener /\ ~list[j].once)
    ELSE 0

\* the for...of loop of emit over the live array this.events[event]: the
\* iterator is at position i; an entry registered with once calls its
\* listener and then splices itself out of the array being walked, an
\* entry registered with on only calls its listener
RECURSIVE Deliver(_, _, _)
Deliver(list, i, invoked) ==
    IF i > Len(list) THEN [list |-> list, invoked |-> invoked]
    ELSE IF list[i].once
         THEN Deliver(Splice(list, i), i + 1, Append(invoked, list[i].fn))
         ELSE Deliver(list, i + 1, Append(invoked, list[i].fn))

(***************************************************************************)
(* AudioEngine                                                             *)
(***************************************************************************)
\* new AudioEngine(): pending holds the startMicrophone and loadFile calls
\* that wait at their await, stopped is history: stop() has returned and
\* neither startMicrophone nor loadFile was called since
NewAudioEngine ==
    [isInitialized |-> FALSE, isPlaying |-> FALSE, source |-> "null",
     bands |-> 0, pending |-> {}, stopped |-> FALSE]

(***************************************************************************)
(* Operations                                                              *)
(***************************************************************************)
\* new ParticleSystem(capacity) and new Renderer(canvas)
Construct(capacity) ==
    /\ maxParticles = capacity
    /\ particlePool = NewPool(capacity)
    /\ spatialHash = EmptyGrid
    /\ physics = [mode |-> "gravity", gravity |-> FP \div 10, gravityX |-> 0,
                  gravityY |-> FP \div 10, magnetismStrength |-> FP \div 2,
                  magnetX |-> 0, magnetY |-> 0,
                  turbulenceStrength |-> (FP * 3) \div 10,
                  turbulenceFrequency |-> FP \div 100,
                  orbitalCenterX |-> FP \div 2, orbitalCenterY |-> FP \div 2,
                  orbitalStrength |-> FP \div 5, damping |-> (FP * 99) \div 100,
                  bounceEnabled |-> 0, wrapEnabled |-> FP]
    /\ emission = [rate |-> 10 * FP, x |-> FP \div 2, y |-> FP \div 2,
                   spread |-> FP \div 5, velocityMin |-> FP, velocityMax |-> 3 * FP,
                   sizeMin |-> 2 * FP, sizeMax |-> 6 * FP,
                   lifeMin |-> 100 * FP, lifeMax |-> 200 * FP,
                   hue |-> 200 * FP, hueVariation |-> 60 * FP]
    /\ audioReactive = [emissionMultiplier |-> FP, sizeMultiplier |-> FP,
                        velocityMultiplier |-> FP, hueShift |-> 0]
    /\ width = 1920 * FP
    /\ height = 1080 * FP
    /\ activeParticleCount = 0
    /\ time = 0
    /\ params = [blendMode |-> "screen", backgroundColor |-> "#000000",
                 backgroundAlpha |-> FP \div 10, enableTrails |-> TRUE,
                 particleShape |-> "circle", glowIntensity |-> 2 * FP,
                 enableGlow |-> TRUE, colorPalette |-> "rainbow",
                 saturation |-> 100 * FP, lightness |-> 50 * FP,
                 lodEnabled |-> TRUE, maxParticles |-> 500 * FP]
    /\ mappings = NoMappings
    /\ learn = [mode |-> FALSE, parameter |-> <<>>, callback |-> FALSE,
                object |-> "", min |-> 0, max |-> 0]
    /\ activity = [lastCC |-> -1, lastValue |-> 0]
    /\ events = NoEvents
    /\ audio = NewAudioEngine
    /\ drawn = <<>>
    /\ lastCall = [op |-> "new"]
    /\ born = [i \in 1..capacity |-> -1]
    /\ preBoundary = NewPool(capacity)

\* ParticleSystem.emit(count, audioEnergy)
Emit(count, audioEnergy, draws) ==
    /\ particlePool' = EmitLoop(particlePool, 1, ActualCount(count, audioEnergy),
                                audioEnergy, draws)
    /\ born' = [i \in 1..Len(particlePool') |->
                  IF i > Len(particlePool) \/ particlePool'[i] # particlePool[i]
                  THEN time ELSE born[i]]
    /\ lastCall' = [op |-> "emit", count |-> count, audioEnergy |-> audioEnergy]
    /\ UNCHANGED <<maxParticles, events, audio, spatialHash, engineConfig,
                   activeParticleCount, time, params, midi, drawn, preBoundary>>

\* ParticleSystem.update(deltaTime, audioBands); preBoundary records each
\* processed particle between particle.update and the boundary pass
Update(deltaTime, audioBands) ==
    /\ time' = time + 1
    /\ activeParticleCount' = Len(getActiveParticles(particlePool))
    /\ preBoundary' = [i \in 1..Len(particlePool) |->
                          IF particlePool[i].active
                          THEN Integrate(particlePool[i], deltaTime, audioBands)
                          ELSE particlePool[i]]
    /\ particlePool' = [i \in 1..Len(particlePool) |->
                           IF particlePool[i].active
                           THEN HandleBoundaries(preBoundary'[i])
                           ELSE particlePool[i]]
    /\ spatialHash' = InsertFrom(EmptyGrid, particlePool, particlePool', 1)
    /\ lastCall' = [op |-> "update", deltaTime |-> deltaTime,
                    audioBands |-> audioBands]
    /\ UNCHANGED <<maxParticles, events, audio, engineConfig, params, midi, drawn, born>>

\* ParticleSystem.clear
Clear ==
    /\ particlePool' = [i \in 1..Len(particlePool) |->
                           [particlePool[i] EXCEPT !.active = FALSE]]
    /\ activeParticleCount' = 0
    /\ lastCall' = [op |-> "clear"]
    /\ UNCHANGED <<maxParticles, events, audio, spatialHash, engineConfig, time, params,
                   midi, drawn, born, preBoundary>>

\* ParticleSystem.setDimensions(width, height)
SetDimensions(w, h) ==
    /\ width' = w
    /\ height' = h
    /\ physics' = [physics EXCEPT !.magnetX = w \div 2, !.magnetY = h \div 2]
    /\ lastCall' = [op |-> "setDimensions", width |-> w, height |-> h]
    /\ UNCHANGED <<maxParticles, events, audio, particlePool, spatialHash, emission,
                   audioReactive, activeParticleCount, time, params, midi,
                   drawn, born, preBoundary>>

\* ParticleSystem.setPhysicsMode(mode)
SetPhysicsMode(mode) ==
    /\ physics' = IF mode \in ValidModes THEN [physics EXCEPT !.mode = mode]
                  ELSE physics
    /\ lastCall' = [op |-> "setPhysicsMode", mode |-> mode]
    /\ UNCHANGED <<maxParticles, events, audio, particlePool, spatialHash, emission,
                   audioReactive, width, height, activeParticleCount, time,
                   params, midi, drawn, born, preBoundary>>

\* MIDIController.createDefaultMappings(particleSystem, renderer)
CreateDefaultMappings ==
    /\ mappings' = [c \in DOMAIN mappings \cup DOMAIN DefaultMappings |->
                       IF c \in DOMAIN DefaultMappings THEN DefaultMappings[c]
                       ELSE mappings[c]]
    /\ lastCall' = [op |-> "createDefaultMappings"]
    /\ UNCHANGED <<maxParticles, events, audio, particlePool, spatialHash, engineConfig,
                   activeParticleCount, time, params, learn, activity,
                   drawn, born, preBoundary>>

\* MIDIController.handleCC(cc, value, channel): the learn branch, then the
\* mapped write
handleCC(cc, value) ==
    LET learning == learn.mode /\ learn.parameter # <<>>
        table == IF learning /\ learn.callback
                 THEN MapCC(mappings, cc, learn.parameter, learn.object,
                            learn.min, learn.max)
                 ELSE mappings
    IN /\ mappings' = table
       /\ learn' = IF learning
                   THEN [learn EXCEPT !.mode = FALSE, !.parameter = <<>>]
                   ELSE learn
       /\ IF cc \in DOMAIN table
          THEN /\ Modelled(table[cc].parameter, table[cc].object)
               /\ setParameter(table[cc].parameter, MappedValue(table[cc], value),
                               table[cc].object)
          ELSE UNCHANGED <<engineConfig, params, particlePool>>
       /\ lastCall' = [op |-> "handleCC", cc |-> cc, value |-> value]
       /\ UNCHANGED <<maxParticles, events, audio, spatialHash,
                      activeParticleCount, time, drawn, born, preBoundary>>

\* a direct call of MIDIController.handleCC(cc, value, channel)
HandleCC(cc, value) ==
    /\ handleCC(cc, value)
    /\ UNCHANGED activity

\* the status byte's high nibble, status & 0xf0
MessageType(status) == status - (status % 16)

ControlChange == 176

\* MIDIController.handleMidiMessage(event) with event.data = [status,
\* data1, data2]: a control change goes to handleCC and is tracked as the
\* last activity, any other message changes nothing
HandleMidiMessage(status, data1, data2) ==
    IF MessageType(status) = ControlChange
    THEN /\ handleCC(data1, data2)
         /\ activity' = [lastCC |-> data1, lastValue |-> data2]
    ELSE /\ lastCall' = [op |-> "handleMidiMessage", status |-> status]
         /\ UNCHANGED <<maxParticles, events, audio, particlePool, spatialHash,
                        engineConfig, activeParticleCount, time, params, midi,
                        drawn, born, preBoundary>>

\* MIDIController.map(cc, parameter, object, min, max)
Map(cc, parameter, object, min, max) ==
    /\ mappings' = MapCC(mappings, cc, parameter, object, min, max)
    /\ lastCall' = [op |-> "map", cc |-> cc]
    /\ UNCHANGED <<maxParticles, events, audio, particlePool, spatialHash,
                   engineConfig, activeParticleCount, time, params, learn,
                   activity, drawn, born, preBoundary>>

\* MIDIController.unmap(cc)
Unmap(cc) ==
    /\ mappings' = [c \in DOMAIN mappings \ {cc} |-> mappings[c]]
    /\ lastCall' = [op |-> "unmap", cc |-> cc]
    /\ UNCHANGED <<engineState, learn, activity, events, audio>>

\* MIDIController.learn(parameter, object, callback, min, max): the stored
\* learnCallback is a closure over object, min and max that calls map
Learn(parameter, object, min, max) ==
    /\ learn' = [mode |-> TRUE, parameter |-> parameter, callback |-> TRUE,
                 object |-> object, min |-> min, max |-> max]
    /\ lastCall' = [op |-> "learn"]
    /\ UNCHANGED <<maxParticles, events, audio, particlePool, spatialHash,
                   engineConfig, activeParticleCount, time, params, mappings,
                   activity, drawn, born, preBoundary>>

\* cancelLearn that leaves learnMode set
CancelLearnKeepsMode ==
    /\ learn' = [learn EXCEPT !.callback = FALSE]
    /\ lastCall' = [op |-> "cancelLearn"]
    /\ UNCHANGED <<maxParticles, events, audio, particlePool, spatialHash,
                   engineConfig, activeParticleCount, time, params, mappings,
                   activity, drawn, born, preBoundary>>

\* MIDIController.cancelLearn()
CancelLearn ==
    /\ learn' = [learn EXCEPT !.mode = FALSE, !.parameter = <<>>,
                              !.callback = FALSE]
    /\ lastCall' = [op |-> "cancelLearn"]
    /\ UNCHANGED <<maxParticles, events, audio, particlePool, spatialHash,
                   engineConfig, activeParticleCount, time, params, mappings,
                   activity, drawn, born, preBoundary>>

\* a direct call of MIDIController.setParameter(path, value, object)
SetParameter(path, value, object) ==
    /\ Modelled(path, object)
    /\ setParameter(path, value, object)
    /\ lastCall' = [op |-> "setParameter", path |-> path, value |-> value,
                    object |-> object]
    /\ UNCHANGED <<maxParticles, events, audio, spatialHash,
                   activeParticleCount, time, midi, drawn, born, preBoundary>>

\* a call of SpatialHash.getNearby(x, y, radius) on the system's index
GetNearby(x, y, radius) ==
    /\ lastCall' = [op |-> "getNearby", x |-> x, y |-> y, radius |-> radius,
                    result |-> getNearby(spatialHash, x, y, radius)]
    /\ UNCHANGED <<maxParticles, events, audio, particlePool, spatialHash, engineConfig,
                   activeParticleCount, time, params, midi, drawn, born,
                   preBoundary>>

\* a call of ParticleSystem.getStats()
GetStats ==
    /\ lastCall' = [op |-> "getStats", result |-> getStats]
    /\ UNCHANGED <<maxParticles, events, audio, particlePool, spatialHash, engineConfig,
                   activeParticleCount, time, params, midi, drawn, born,
                   preBoundary>>

\* Renderer.render: "Get particles (with LOD if enabled)"
Render ==
    /\ drawn' = IF params.lodEnabled
                THEN getActiveParticlesLOD(particlePool, params.maxParticles)
                ELSE getActiveParticles(particlePool)
    /\ lastCall' = [op |-> "render"]
    /\ UNCHANGED <<maxParticles, events, audio, particlePool, spatialHash, engineConfig,
                   activeParticleCount, time, params, midi, born, preBoundary>>

\* values as JSON.parse produces them: an array of items, an object that is
\* no array, null; an item of a mapping list is an object with the four
\* fields getMappings writes
JsonArray(items) == [kind |-> "array", items |-> items]

JsonObject == [kind |-> "object", items |-> <<>>]

JsonNull == [kind |-> "null", items |-> <<>>]

JsonMapping(cc, parameter, min, max) ==
    [kind |-> "mapping", cc |-> cc, parameter |-> parameter, min |-> min,
     max |-> max]

\* a text: one that JSON.parse rejects, or the value it parses to
BrokenText == [syntax |-> "broken", value |-> JsonNull]

JsonStringify(value) == [syntax |-> "json", value |-> value]

\* JSON.parse(json): ok is false when it throws a SyntaxError
JsonParse(json) == [ok |-> json.syntax = "json", value |-> json.value]

\* the mapped CC numbers in ascending order
CCsInOrder(table) ==
    [k \in 1..Cardinality(DOMAIN table) |->
        CHOOSE c \in DOMAIN table :
            Cardinality({d \in DOMAIN table : d < c}) = k - 1]

\* MIDIController.getMappings(): cc, parameter, min and max of every
\* mapping, without the target object
getMappings(table) ==
    [k \in 1..Cardinality(DOMAIN table) |->
        LET cc == CCsInOrder(table)[k]
        IN JsonMapping(cc, table[cc].parameter, table[cc].min, table[cc].max)]

\* the loop of loadMappings from item k on: reading mapping.cc of an item
\* that is null throws and leaves what was loaded so far
RECURSIVE LoadFrom(_, _, _, _)
LoadFrom(table, items, k, object) ==
    IF k > Len(items) THEN [mappings |-> table, threw |-> FALSE]
    ELSE IF items[k].kind # "mapping" THEN [mappings |-> table, threw |-> TRUE]
    ELSE LoadFrom(MapCC(table, items[k].cc, items[k].parameter, object,
                        items[k].min, items[k].max),
                  items, k + 1, object)

\* MIDIController.loadMappings(mappingsArray, object): clearMappings()
\* first, then the loop; for...of over a value that is not iterable throws
loadMappings(value, object) ==
    IF value.kind = "array" THEN LoadFrom(NoMappings, value.items, 1, object)
    ELSE [mappings |-> NoMappings, threw |-> TRUE]

\* a call of MIDIController.loadMappings(mappingsArray, object)
LoadMappings(value, object) ==
    /\ mappings' = loadMappings(value, object).mappings
    /\ lastCall' = [op |-> "loadMappings",
                    threw |-> loadMappings(value, object).threw]
    /\ UNCHANGED <<engineState, learn, activity, events, audio>>

\* MIDIController.exportMappings()
ExportMappings ==
    /\ lastCall' = [op |-> "exportMappings",
                    result |-> JsonStringify(JsonArray(getMappings(mappings)))]
    /\ UNCHANGED <<engineState, midi, events, audio>>

\* MIDIController.importMappings(json, object): whatever JSON.parse or
\* loadMappings throws is caught and turned into the result false
ImportMappings(json, object) ==
    LET parsed == JsonParse(json)
        loaded == loadMappings(parsed.value, object)
    IN /\ mappings' = IF parsed.ok THEN loaded.mappings ELSE mappings
       /\ lastCall' = [op |-> "importMappings", json |-> json,
                       result |-> parsed.ok /\ ~loaded.threw]
       /\ UNCHANGED <<engineState, learn, activity, events, audio>>

\* the timer handleMidiMessage starts: this.lastCC = null after 500 ms
ActivityTimeout ==
    /\ activity.lastCC # -1
    /\ activity' = [activity EXCEPT !.lastCC = -1]
    /\ lastCall' = [op |-> "activityTimeout"]
    /\ UNCHANGED <<engineState, mappings, learn, events, audio>>

\* EventEmitter.on(event, listener)
On(event, listener) ==
    /\ events' = [e \in DOMAIN events \cup {event} |->
                     IF e = event
                     THEN Append(ListenersOf(events, event),
                                 [fn |-> listener, once |-> FALSE])
                     ELSE events[e]]
    /\ lastCall' = [op |-> "on"]
    /\ UNCHANGED <<engineState, midi, audio>>

\* EventEmitter.once(event, listener): on(event, onceListener)
Once(event, listener) ==
    /\ events' = [e \in DOMAIN events \cup {event} |->
                     IF e = event
                     THEN Append(ListenersOf(events, event),
                                 [fn |-> listener, once |-> TRUE])
                     ELSE events[e]]
    /\ lastCall' = [op |-> "once"]
    /\ UNCHANGED <<engineState, midi, audio>>

\* EventEmitter.off(event, listener)
Off(event, listener) ==
    /\ events' = IF event \in DOMAIN events
                    /\ IndexOf(events[event], listener) # 0
                 THEN [events EXCEPT ![event] =
                          Splice(events[event], IndexOf(events[event], listener))]
                 ELSE events
    /\ lastCall' = [op |-> "off"]
    /\ UNCHANGED <<engineState, midi, audio>>

\* EventEmitter.emit(event, ...args); the history records the functions
\* registered when emit was called and the functions it invoked, in order
EmitEvent(event) ==
    LET done == Deliver(ListenersOf(events, event), 1, <<>>)
    IN /\ events' = IF event \in DOMAIN events
                    THEN [events EXCEPT ![event] = done.list]
                    ELSE events
       /\ lastCall' = [op |-> "emitEvent", event |-> event,
                       registered |-> Functions(ListenersOf(events, event)),
                       invoked |-> done.invoked]
       /\ UNCHANGED <<engineState, midi, audio>>

\* AudioEngine.startMicrophone() up to its await of getUserMedia: init()
\* has run when the engine was not initialized
StartMicrophone ==
    /\ "microphone" \notin audio.pending
    /\ audio' = [audio EXCEPT !.isInitialized = TRUE,
                              !.pending = @ \cup {"microphone"},
                              !.stopped = FALSE]
    /\ lastCall' = [op |-> "startMicrophone"]
    /\ UNCHANGED <<engineState, midi, events>>

\* getUserMedia resolves: the rest of startMicrophone's try block
MicrophoneGranted ==
    /\ "microphone" \in audio.pending
    /\ audio' = [audio EXCEPT !.source = "microphone", !.isPlaying = TRUE,
                              !.pending = @ \ {"microphone"}]
    /\ lastCall' = [op |-> "microphoneGranted"]
    /\ UNCHANGED <<engineState, midi, events>>

\* getUserMedia rejects: startMicrophone's catch block
MicrophoneDenied ==
    /\ "microphone" \in audio.pending
    /\ audio' = [audio EXCEPT !.pending = @ \ {"microphone"}]
    /\ lastCall' = [op |-> "microphoneDenied"]
    /\ UNCHANGED <<engineState, midi, events>>

\* AudioEngine.loadFile(file) up to its awaits of file.arrayBuffer() and
\* decodeAudioData
LoadFile ==
    /\ "file" \notin audio.pending
    /\ audio' = [audio EXCEPT !.isInitialized = TRUE,
                              !.pending = @ \cup {"file"},
                              !.stopped = FALSE]
    /\ lastCall' = [op |-> "loadFile"]
    /\ UNCHANGED <<engineState, midi, events>>

\* decodeAudioData resolves: the rest of loadFile's try block
FileDecoded ==
    /\ "file" \in audio.pending
    /\ audio' = [audio EXCEPT !.source = "file", !.isPlaying = TRUE,
                              !.pending = @ \ {"file"}]
    /\ lastCall' = [op |-> "fileDecoded"]
    /\ UNCHANGED <<engineState, midi, events>>

\* the read or the decode rejects: loadFile's catch block
FileRejected ==
    /\ "file" \in audio.pending
    /\ audio' = [audio EXCEPT !.pending = @ \ {"file"}]
    /\ lastCall' = [op |-> "fileRejected"]
    /\ UNCHANGED <<engineState, midi, events>>

\* AudioEngine.stop()
Stop ==
    /\ audio' = [audio EXCEPT !.source = "null", !.isPlaying = FALSE,
                              !.stopped = TRUE]
    /\ lastCall' = [op |-> "stop"]
    /\ UNCHANGED <<engineState, midi, events>>

\* AudioEngine.analyze() when the analyser's data averages to level in
\* every band
Analyze(level) ==
    /\ audio' = IF ~audio.isPlaying \/ ~audio.isInitialized THEN audio
                ELSE [audio EXCEPT !.bands = level]
    /\ lastCall' = [op |-> "analyze"]
    /\ UNCHANGED <<engineState, midi, events>>

(***************************************************************************)
(* Inputs                                                                  *)
(***************************************************************************)
\* one iteration's Math.random() draws, all equal to r except the direction
Draw(r, rdir) ==
    [rx |-> r, ry |-> r, rdir |-> rdir, rspeed |-> r, rsize |-> r,
     rlife |-> r, rhue |-> r, rangle |-> r, rspin |-> r]

\* the draws explored: the low end of every range heading right, and the
\* middle of every range heading left
Draws == {Draw(0, 0), Draw(FP \div 2, FP \div 2)}

\* draws that send one particle up, faster than gravity turns it in one
\* frame, and another to the left
BoundaryDraws == {Draw(FP \div 2, 3 * (FP \div 4)), Draw(0, FP \div 2)}

\* a valid audio vector: bass 1, mid 0.5, treble 1
SevenBands == <<0, FP, 0, FP \div 2, 0, FP, 0>>

\* the same levels followed by an eighth band
EightBands == <<0, FP, 0, FP \div 2, 0, FP, 0, 0>>

\* draws that spawn one particle at the centre of the canvas heading right
\* and another off the centre heading left
ForceDraws == {Draw(FP \div 2, 0), Draw(0, FP \div 2)}

\* a canvas of 4 by 3 pixels
SmallWidth == 4 * FP

SmallHeight == 3 * FP

\* a lifetime of 0.015, shorter than two frames and no multiple of the decay
ShortLife == (FP * 15) \div 1000

\* a lifetime of 0.035: with ShortLife as lifeMin the middle draw lives 0.025
ShortLifeMax == (FP * 35) \div 1000

(***************************************************************************)
(* Spec: the pool's life cycle under emit, update and clear                *)
(***************************************************************************)
Init == Construct(MaxParticles)

EmitCall ==
    \E count \in 0..MaxEmit :
        \E draws \in [1..count -> {Draw(0, 0)}] : Emit(count * FP, 0, draws)

UpdateCall ==
    /\ time < MaxTime
    /\ Update(FP, NoBands)

ClearCall == Clear

ShortLifeCall == SetParameter(<<"emission", "lifeMin">>, ShortLife, "particleSystem")

StatsCall == GetStats

Next == EmitCall \/ UpdateCall \/ ClearCall \/ ShortLifeCall \/ StatsCall

Spec == Init /\ [][Next]_vars

(***************************************************************************)
(* Claims checked under Spec                                               *)
(***************************************************************************)
AllActive == \A i \in 1..Len(particlePool) : particlePool[i].active

\* C1: after any sequence of emit, update and clear calls the pool holds
\* exactly maxParticles slots and at most maxParticles of them are active.
C1_CapacityInvariant ==
    /\ Len(particlePool) = maxParticles
    /\ Len(getActiveParticles(particlePool)) <= maxParticles

\* an emit has filled the pool after updates ran: one slot was spawned in a
\* later frame than another
C1_Witness ==
    /\ lastCall.op = "emit"
    /\ AllActive
    /\ \E i, j \in 1..Len(particlePool) : born[i] > born[j] /\ born[j] >= 0

\* C2: an emit step changes no particle that was active before the call and
\* does not resize the pool; with every slot active the pool is unchanged.
C2_EmitSparesActive ==
    [][lastCall'.op = "emit" =>
         /\ Len(particlePool') = Len(particlePool)
         /\ \A i \in 1..Len(particlePool) :
               particlePool[i].active => particlePool'[i] = particlePool[i]
         /\ AllActive => particlePool' = particlePool]_vars

\* an emit was called on a full pool: every slot is active, was spawned before
\* the last update and was processed by it, and the last call is an emit
C2_Witness ==
    /\ lastCall.op = "emit"
    /\ AllActive
    /\ time > 0
    /\ \A i \in 1..Len(particlePool) : born[i] >= 0 /\ born[i] < time

(***************************************************************************)
(* SpecLOD: a pool large enough for the default CC 32 range, rendered      *)
(***************************************************************************)
InitLOD == Construct(LodCapacity)

LodEmit == Emit(LodBatch * FP, 0, [i \in 1..LodBatch |-> Draw(0, 0)])

LodClear == Clear

LodDefaultMappings == CreateDefaultMappings

LodCC == \E value \in {0, 1, CCMax} : HandleCC(32, value)

LodRender == Render

NextLOD == LodEmit \/ LodClear \/ LodDefaultMappings \/ LodCC \/ LodRender

SpecLOD == InitLOD /\ [][NextLOD]_vars

\* the list render has just drawn came from getActiveParticlesLOD
Sampling == lastCall.op = "render" /\ params.lodEnabled

ActiveCount == Len(getActiveParticles(particlePool))

\* C5: when more particles are active than maxCount, the sampler returns
\* exactly maxCount particles, the i-th being active particle
\* floor(i * n / maxCount), indices non-decreasing and inside 0..n-1, for
\* every maxCount the CC 32 mapping can write.
C5_LODExactCount ==
    (Sampling /\ ActiveCount * FP > params.maxParticles) =>
        LET active == getActiveParticles(particlePool)
            n == Len(active)
        IN /\ Len(drawn) * FP = params.maxParticles
           /\ \A k \in 1..Len(drawn) :
                 LET index == ((k - 1) * n * FP) \div params.maxParticles
                 IN /\ index \in 0..(n - 1)
                    /\ drawn[k] = active[index + 1]
           /\ \A k \in 1..(Len(drawn) - 1) : drawn[k] <= drawn[k + 1]

\* C6: when the active count is at most maxCount, the sampler returns every
\* active particle exactly once, in pool order, and changes no particle.
C6_LODReturnsAll ==
    [][(lastCall'.op = "render" /\ params'.lodEnabled
          /\ ActiveCount' * FP <= params'.maxParticles) =>
         /\ particlePool' = particlePool
         /\ \A k \in 1..Len(drawn') :
               /\ drawn'[k] \in 1..Len(particlePool)
               /\ particlePool[drawn'[k]].active
         /\ \A k \in 1..(Len(drawn') - 1) : drawn'[k] < drawn'[k + 1]
         /\ \A i \in 1..Len(particlePool) :
               particlePool[i].active => \E k \in 1..Len(drawn') : drawn'[k] = i]_vars

\* render drew every particle of a partly filled pool after CC 32 had set
\* maxCount to the minimum of its range, 100
C6_Witness ==
    /\ Sampling
    /\ ActiveCount = LodBatch
    /\ params.maxParticles = 100 * FP
    /\ Len(drawn) = LodBatch

(***************************************************************************)
(* SpecLife: particles with short lifetimes age and die; no clear          *)
(***************************************************************************)
InitLife == Construct(MaxParticles)

LifeMinCall == SetParameter(<<"emission", "lifeMin">>, ShortLife, "particleSystem")

LifeMaxCall == SetParameter(<<"emission", "lifeMax">>, ShortLifeMax, "particleSystem")

LifeNoForceCall == SetParameter(<<"physics", "gravityY">>, 0, "particleSystem")

LifeEmit == \E draws \in [1..1 -> Draws] : Emit(FP, 0, draws)

LifeUpdate == time < MaxTime /\ Update(FP, NoBands)

NextLife == LifeMinCall \/ LifeMaxCall \/ LifeNoForceCall \/ LifeEmit \/ LifeUpdate

SpecLife == InitLife /\ [][NextLife]_vars

\* the number of update calls made since slot i was spawned
CallsSince(i) == time - born[i]

\* the first k with L - 0.01 k <= 0
LastCall(L) == (L + LifeDecay - 1) \div LifeDecay

\* C3 as stated: after k update calls with deltaTime = 1 a particle spawned
\* with maxLife = L has life = max(0, L - 0.01 k) and is active exactly while
\* L - 0.01 k > 0.
C3_LifeClamped ==
    \A i \in 1..Len(particlePool) :
        born[i] >= 0 =>
            LET L == particlePool[i].maxLife
                k == CallsSince(i)
            IN /\ particlePool[i].life = Max(0, L - LifeDecay * k)
               /\ particlePool[i].active <=> (L - LifeDecay * k > 0)

\* C3 amended: life = L - 0.01 min(k, k0), where k0 is the first k with
\* L - 0.01 k <= 0; the particle is active exactly while k < k0, and life is
\* not clamped (it stops at the first value <= 0, which may be negative).
C3_LifeLinearThenFrozen ==
    \A i \in 1..Len(particlePool) :
        born[i] >= 0 =>
            LET L == particlePool[i].maxLife
                k == CallsSince(i)
            IN /\ particlePool[i].life = L - LifeDecay * Min(k, LastCall(L))
               /\ particlePool[i].active <=> (k < LastCall(L))

\* with no force configured, a particle has died below zero and a later
\* update has left it alone, while another particle is still ageing
C3_Witness ==
    /\ physics.gravityX = 0 /\ physics.gravityY = 0
    /\ \E i, j \in 1..Len(particlePool) :
          /\ born[i] >= 0 /\ ~particlePool[i].active
          /\ particlePool[i].life < 0
          /\ CallsSince(i) > LastCall(particlePool[i].maxLife)
          /\ born[j] >= 0 /\ particlePool[j].active
          /\ CallsSince(j) > 0

(***************************************************************************)
(* SpecScenario: capacity 10, emit(5, 0) once, then update(1, null)        *)
(***************************************************************************)
InitScenario == Construct(ScenarioCapacity)

ScenarioEmit ==
    /\ lastCall.op = "new"
    /\ \E draws \in [1..ScenarioEmitted -> Draws] :
          Emit(ScenarioEmitted * FP, 0, draws)

ScenarioUpdate ==
    /\ lastCall.op \in {"emit", "update"}
    /\ time < ScenarioUpdates
    /\ Update(FP, NoBands)

NextScenario == ScenarioEmit \/ ScenarioUpdate

SpecScenario == InitScenario /\ [][NextScenario]_vars

\* C4: emit(5, 0) on a capacity-10 engine yields exactly 5 active particles,
\* and after 250 calls update(1, null) with the default lifetime range all
\* of them are inactive.
C4_ScenarioAllRetired ==
    /\ lastCall.op = "emit" => ActiveCount = ScenarioEmitted
    /\ (lastCall.op = "update" /\ time = ScenarioUpdates) => ActiveCount = 0

(***************************************************************************)
(* SpecBoundary: a small canvas, both boundary switches, emit and update   *)
(***************************************************************************)
InitBoundary == Construct(MaxParticles)

BoundaryResize == SetDimensions(SmallWidth, SmallHeight)

BoundaryBounceSwitch ==
    \E v \in {0, FP} :
        SetParameter(<<"physics", "bounceEnabled">>, v, "particleSystem")

BoundaryWrapSwitch ==
    \E v \in {0, FP} :
        SetParameter(<<"physics", "wrapEnabled">>, v, "particleSystem")

BoundaryEmit == \E draws \in [1..1 -> BoundaryDraws] : Emit(FP, 0, draws)

BoundaryUpdate == time < MaxTime /\ Update(FP, NoBands)

NextBoundary ==
    \/ BoundaryResize \/ BoundaryBounceSwitch \/ BoundaryWrapSwitch
    \/ BoundaryEmit \/ BoundaryUpdate

SpecBoundary == InitBoundary /\ [][NextBoundary]_vars

\* slot i was processed by the update that has just returned: it is in the
\* rebuilt spatial hash
Processed(i) ==
    /\ lastCall.op = "update"
    /\ \E key \in DOMAIN spatialHash :
          \E k \in 1..Len(spatialHash[key]) : spatialHash[key][k] = i

Inside(p) == p.x >= 0 /\ p.x <= width /\ p.y >= 0 /\ p.y <= height

\* C8: under the wrap policy the boundary pass moves x > width to 0 and
\* x < 0 to width (y likewise with height), changes nothing else, in
\* particular not the velocity, leaves a particle inside the canvas
\* untouched, and leaves every processed particle inside the canvas.
C8_WrapRelocates ==
    (lastCall.op = "update" /\ physics.bounceEnabled = 0 /\ physics.wrapEnabled # 0) =>
        \A i \in 1..Len(particlePool) :
            Processed(i) =>
                LET b == preBoundary[i]
                    a == particlePool[i]
                IN /\ a = [b EXCEPT
                             !.x = IF b.x > width THEN 0
                                   ELSE IF b.x < 0 THEN width ELSE b.x,
                             !.y = IF b.y > height THEN 0
                                   ELSE IF b.y < 0 THEN height ELSE b.y]
                   /\ a.vx = b.vx /\ a.vy = b.vy
                   /\ Inside(b) => a = b
                   /\ Inside(a)

\* one update under the wrap policy has moved a moving particle from beyond
\* the right edge to x = 0 and has left a particle inside the canvas alone
C8_Witness ==
    /\ lastCall.op = "update"
    /\ physics.bounceEnabled = 0 /\ physics.wrapEnabled # 0
    /\ \E i, j \in 1..Len(particlePool) :
          /\ Processed(i) /\ preBoundary[i].x > width /\ particlePool[i].x = 0
          /\ particlePool[i].vx # 0
          /\ Processed(j) /\ Inside(preBoundary[j])

\* C9: under the bounce policy a coordinate that has left [0, width] or
\* [0, height] is clamped to the boundary it crossed and the matching
\* velocity component is negated and scaled by the damping factor 0.8; the
\* other axis, every other field and particles inside the canvas are
\* unchanged.
C9_BounceReflects ==
    (lastCall.op = "update" /\ physics.bounceEnabled # 0) =>
        \A i \in 1..Len(particlePool) :
            Processed(i) =>
                LET b == preBoundary[i]
                    a == particlePool[i]
                    outX == b.x < 0 \/ b.x > width
                    outY == b.y < 0 \/ b.y > height
                IN /\ a = [b EXCEPT
                             !.x = IF b.x < 0 THEN 0
                                   ELSE IF b.x > width THEN width ELSE b.x,
                             !.vx = IF outX THEN -((b.vx * BounceDamping) \div FP
                                                   + IF (b.vx * BounceDamping) % FP = 0
                                                     THEN 0 ELSE 1)
                                    ELSE b.vx,
                             !.y = IF b.y < 0 THEN 0
                                   ELSE IF b.y > height THEN height ELSE b.y,
                             !.vy = IF outY THEN -((b.vy * BounceDamping) \div FP
                                                   + IF (b.vy * BounceDamping) % FP = 0
                                                     THEN 0 ELSE 1)
                                    ELSE b.vy]
                   /\ outX /\ b.vx > 0 => a.vx < 0
                   /\ outX /\ b.vx < 0 => a.vx > 0
                   /\ Inside(b) => a = b

\* one update under the bounce policy has stopped a moving particle at the
\* left edge and reversed it, and another at the bottom edge
C9_Witness ==
    /\ lastCall.op = "update"
    /\ physics.bounceEnabled # 0
    /\ \E i, j \in 1..Len(particlePool) :
          /\ Processed(i) /\ preBoundary[i].x < 0 /\ preBoundary[i].vx < 0
          /\ particlePool[i].x = 0 /\ particlePool[i].vx > 0
          /\ Processed(j) /\ preBoundary[j].y > height /\ preBoundary[j].vy > 0
          /\ particlePool[j].y = height /\ particlePool[j].vy < 0

\* C12: in every update exactly one boundary policy, bounce or wrap, is
\* applied to each processed particle, whatever the physics configuration
\* holds: a particle that integration carried out of the canvas is back
\* inside it after the boundary pass, and with the default switches a
\* particle is wrapped.
C12_ExactlyOnePolicy ==
    lastCall.op = "update" =>
        \A i \in 1..Len(particlePool) :
            Processed(i) =>
                /\ ~Inside(preBoundary[i]) =>
                       (Inside(particlePool[i]) /\ particlePool[i] # preBoundary[i])
                /\ (physics.bounceEnabled = 0 /\ physics.wrapEnabled = FP) =>
                       particlePool[i].x
                         = IF preBoundary[i].x > width THEN 0
                           ELSE IF preBoundary[i].x < 0 THEN width
                           ELSE preBoundary[i].x

(***************************************************************************)
(* SpecGravity: particles emitted at rest, gravity mode, both policies     *)
(***************************************************************************)
InitGravity == Construct(MaxParticles)

GravityAtRest == SetParameter(<<"emission", "velocityMin">>, 0, "particleSystem")

GravityResize == SetDimensions(SmallWidth, SmallHeight)

GravityBounceSwitch ==
    \E v \in {0, FP} :
        SetParameter(<<"physics", "bounceEnabled">>, v, "particleSystem")

\* the speed draw is 0 in both draws, so that speed = velocityMin
GravityEmit ==
    \E draws \in [1..1 -> {Draw(0, 0), [Draw(FP \div 2, 0) EXCEPT !.rspeed = 0]}] :
        Emit(FP, 0, draws)

GravityUpdate == time < MaxTime /\ Update(FP, NoBands)

NextGravity ==
    \/ GravityAtRest \/ GravityResize \/ GravityBounceSwitch
    \/ GravityEmit \/ GravityUpdate

SpecGravity == InitGravity /\ [][NextGravity]_vars

\* the step is update(1, null) in gravity mode with gravity (0, 0.1)
GravityStep ==
    /\ lastCall'.op = "update"
    /\ lastCall'.deltaTime = FP
    /\ ~lastCall'.audioBands.present
    /\ physics.mode = "gravity"
    /\ physics.gravityX = 0
    /\ physics.gravityY = FP \div 10

AtRest(p) == p.active /\ p.vx = 0 /\ p.vy = 0

\* C10 as stated: after one update(1, null) in gravity mode with gravity
\* (0, 0.1) every active particle that was at rest has vy = 0.1 and vx = 0,
\* whatever its position.
C10_GravityAddsTenth ==
    [][GravityStep =>
         \A i \in 1..Len(particlePool) :
             AtRest(particlePool[i]) =>
                 /\ particlePool'[i].vy = FP \div 10
                 /\ particlePool'[i].vx = 0]_vars

\* C10 amended: such a particle has vx = 0 and vy = 0.1 / mass, which is
\* 1 / size and equals 0.1 only for mass 1, whatever its position, unless
\* the bounce policy reflects it at a boundary in that update.
C10_GravityAddsForceOverMass ==
    [][GravityStep =>
         \A i \in 1..Len(particlePool) :
             (/\ AtRest(particlePool[i])
              /\ physics.bounceEnabled = 0 \/ Inside(preBoundary'[i])) =>
                 /\ particlePool'[i].vy
                      = ((FP \div 10) * FP) \div (particlePool[i].size \div 10)
                 /\ particlePool'[i].vy = (FP * FP) \div particlePool[i].size
                 /\ particlePool'[i].vx = 0]_vars

\* update(1, null) has just run in gravity mode with gravity (0, 0.1) on two
\* particles of different size that were at rest at different positions, and
\* they have gained different vertical velocities
C10_Witness ==
    /\ lastCall.op = "update" /\ ~lastCall.audioBands.present
    /\ physics.mode = "gravity" /\ physics.gravityX = 0
    /\ physics.gravityY = FP \div 10
    /\ \E i, j \in 1..Len(particlePool) :
          /\ Processed(i) /\ Processed(j)
          /\ born[i] = time - 1 /\ born[j] = time - 1
          /\ particlePool[i].size # particlePool[j].size
          /\ preBoundary[i].x # preBoundary[j].x
          /\ particlePool[i].vx = 0 /\ particlePool[j].vx = 0
          /\ particlePool[i].vy = (FP * FP) \div particlePool[i].size
          /\ particlePool[j].vy = (FP * FP) \div particlePool[j].size

(***************************************************************************)
(* SpecForces: every physics mode and audio vectors of several lengths on  *)
(* a small canvas                                                          *)
(***************************************************************************)
InitForces == Construct(MaxParticles)

ForcesResize == SetDimensions(SmallWidth, SmallHeight)

\* the forces are configured on the small canvas before the first update
ForcesMode ==
    /\ width = SmallWidth
    /\ time = 0
    /\ \E mode \in ValidModes \cup {"vortex"} : SetPhysicsMode(mode)

ForcesModeWrite ==
    /\ time = 0
    /\ SetParameter(<<"physics", "mode">>, "vortex", "particleSystem")

ForcesStrength ==
    /\ time = 0
    /\ SetParameter(<<"physics", "magnetismStrength">>, 2 * FP, "particleSystem")

\* particles are spawned on the small canvas
ForcesEmit ==
    /\ width = SmallWidth
    /\ \E draws \in [1..1 -> ForceDraws] : Emit(FP, 0, draws)

ForcesUpdate ==
    /\ time < MaxTime
    /\ \E bands \in {NoBands, Bands(SevenBands), Bands(EightBands)} :
          Update(FP, bands)

NextForces ==
    \/ ForcesResize \/ ForcesMode \/ ForcesModeWrite \/ ForcesStrength
    \/ ForcesEmit \/ ForcesUpdate

SpecForces == InitForces /\ [][NextForces]_vars

(***************************************************************************)
(* Claims checked under SpecForces                                         *)
(***************************************************************************)
\* the audio vector is an array of exactly 7 bands
SevenLong(bands) == bands.present /\ Len(bands.data) = 7

\* the treble bias on vx, (audioBands[5] - 0.5) * 0.3, and the bass bias on
\* vy, audioBands[1] * 0.5, of a valid vector
BiasX(bands) ==
    IF SevenLong(bands) THEN Mul(bands.data[6] - FP \div 2, (FP * 3) \div 10) ELSE 0

BiasY(bands) == IF SevenLong(bands) THEN Mul(bands.data[2], FP \div 2) ELSE 0

\* slot i lies in the bucket of the cell of particle a, and only once
InBucketOf(grid, i, a) ==
    LET key == <<a.x \div (CellSize * FP), a.y \div (CellSize * FP)>>
    IN /\ key \in DOMAIN grid
       /\ Cardinality({k \in 1..Len(grid[key]) : grid[key][k] = i}) = 1

\* the position the wrap policy gives a particle that integration left at b
Wrapped(b) ==
    [b EXCEPT !.x = IF b.x > width THEN 0 ELSE IF b.x < 0 THEN width ELSE b.x,
              !.y = IF b.y > height THEN 0 ELSE IF b.y < 0 THEN height ELSE b.y]

WrapPolicy == physics.bounceEnabled = 0 /\ physics.wrapEnabled # 0

\* C11: in one update every active particle passes through mode force,
\* audio adjustment, damping, integration, boundary policy and index
\* insertion in this order: integration leaves the velocity
\* (old velocity + audio bias) * damping + acceleration * deltaTime and moves
\* the particle by that velocity, the boundary policy acts on the integrated
\* position, and the index files the particle under the position the
\* boundary policy left.
C11_PipelineOrder ==
    [][lastCall'.op = "update" =>
         \A i \in 1..Len(particlePool) :
             particlePool[i].active =>
                 LET p == particlePool[i]
                     f == ModeForce(p)
                     b == preBoundary'[i]
                     a == particlePool'[i]
                     dt == lastCall'.deltaTime
                     bands == lastCall'.audioBands
                 IN /\ b.vx = Mul(p.vx + BiasX(bands), physics.damping) + Mul(f.ax, dt)
                    /\ b.vy = Mul(p.vy + BiasY(bands), physics.damping) + Mul(f.ay, dt)
                    /\ b.x = p.x + Mul(b.vx, dt)
                    /\ b.y = p.y + Mul(b.vy, dt)
                    /\ WrapPolicy => a = Wrapped(b)
                    /\ InBucketOf(spatialHash', i, a)]_vars

\* an update with a valid audio vector and damping below 1 has carried a
\* particle across the left edge, the wrap policy has moved it to the right
\* edge and the index holds it in the cell of the right edge
C11_Witness ==
    /\ lastCall.op = "update" /\ SevenLong(lastCall.audioBands)
    /\ physics.damping < FP /\ WrapPolicy
    /\ \E i \in 1..Len(particlePool) :
          /\ preBoundary[i].active
          /\ preBoundary[i].x < 0 /\ preBoundary[i].vx < 0
          /\ particlePool[i].x = width
          /\ InBucketOf(spatialHash, i, particlePool[i])
          /\ ~InBucketOf(spatialHash, i, preBoundary[i])

\* C13: with physics.mode a string outside the four modes, update applies
\* no mode force (the velocity changes by audio bias and damping only, the
\* acceleration is zero) and completes the frame: life decreases, the
\* boundary policy is applied and the particle is put in the rebuilt index.
C13_UnknownModeNoForce ==
    [][(lastCall'.op = "update" /\ physics.mode \notin ValidModes) =>
         \A i \in 1..Len(particlePool) :
             particlePool[i].active =>
                 LET p == particlePool[i]
                     b == preBoundary'[i]
                     a == particlePool'[i]
                     bands == lastCall'.audioBands
                 IN /\ b.vx = Mul(p.vx + BiasX(bands), physics.damping)
                    /\ b.vy = Mul(p.vy + BiasY(bands), physics.damping)
                    /\ a.ax = 0 /\ a.ay = 0
                    /\ a.life = p.life - Mul(LifeDecay, lastCall'.deltaTime)
                    /\ WrapPolicy => (a = Wrapped(b) /\ Inside(a))
                    /\ InBucketOf(spatialHash', i, a)]_vars

\* with the mode "vortex" an update has processed a particle spawned one
\* frame earlier with no vertical velocity: it has kept vy = 0, has aged
\* and is indexed, while an older particle was wrapped at the left edge
C13_Witness ==
    /\ lastCall.op = "update" /\ ~lastCall.audioBands.present
    /\ physics.mode = "vortex"
    /\ \E i, j \in 1..Len(particlePool) :
          /\ Processed(i) /\ born[i] = time - 1
          /\ particlePool[i].vy = 0 /\ particlePool[i].vx # 0
          /\ particlePool[i].life < particlePool[i].maxLife
          /\ Processed(j) /\ preBoundary[j].x < 0 /\ particlePool[j].x = width

\* C14: when the audio vector is null or its length is not 7, update
\* applies no audio adjustment (no bias on vx or vy, size unchanged), and
\* the acceleration of the active physics mode enters the velocity as it
\* does with a valid vector.
C14_MalformedVectorSkipsAudio ==
    [][(/\ lastCall'.op = "update"
        /\ \/ ~lastCall'.audioBands.present
           \/ Len(lastCall'.audioBands.data) # 7) =>
         \A i \in 1..Len(particlePool) :
             particlePool[i].active =>
                 LET p == particlePool[i]
                     f == ModeForce(p)
                     b == preBoundary'[i]
                     dt == lastCall'.deltaTime
                 IN /\ b.vx = Mul(p.vx, physics.damping) + Mul(f.ax, dt)
                    /\ b.vy = Mul(p.vy, physics.damping) + Mul(f.ay, dt)
                    /\ b.size = p.size
                    /\ particlePool'[i].size = p.size]_vars

\* an update in gravity mode with a vector of 8 bands has processed a
\* particle spawned one frame earlier with vy = 0 and size 2: it has gained
\* the vertical velocity of gravity alone, 0.1 / mass, and kept its size
C14_Witness ==
    /\ lastCall.op = "update" /\ lastCall.audioBands.present
    /\ Len(lastCall.audioBands.data) = 8
    /\ lastCall.audioBands.data[2] > 0
    /\ physics.mode = "gravity"
    /\ \E i \in 1..Len(particlePool) :
          /\ Processed(i) /\ born[i] = time - 1
          /\ particlePool[i].size = 2 * FP
          /\ preBoundary[i].vy = Div(physics.gravityY, particlePool[i].mass)
          /\ preBoundary[i].vy > 0

\* C15: in magnetism mode a particle exactly at the magnet, and in orbital
\* mode a particle exactly at the orbit centre, receives no acceleration in
\* that update, while every other particle receives the force of the mode
\* (which is never zero in orbital mode); deltaTime is 1.
C15_NoForceAtTarget ==
    [][(/\ lastCall'.op = "update" /\ lastCall'.deltaTime = FP
        /\ physics.mode \in {"magnetism", "orbital"}) =>
         \A i \in 1..Len(particlePool) :
             particlePool[i].active =>
                 LET p == particlePool[i]
                     b == preBoundary'[i]
                     bands == lastCall'.audioBands
                     targetX == IF physics.mode = "magnetism" THEN physics.magnetX
                                ELSE Mul(physics.orbitalCenterX, width)
                     targetY == IF physics.mode = "magnetism" THEN physics.magnetY
                                ELSE Mul(physics.orbitalCenterY, height)
                     atTarget == p.x = targetX /\ p.y = targetY
                     accX == b.vx - Mul(p.vx + BiasX(bands), physics.damping)
                     accY == b.vy - Mul(p.vy + BiasY(bands), physics.damping)
                 IN /\ atTarget => (accX = 0 /\ accY = 0)
                    /\ ~atTarget => (accX = ModeForce(p).ax /\ accY = ModeForce(p).ay)
                    /\ (~atTarget /\ physics.mode = "orbital") =>
                           (accX # 0 \/ accY # 0)]_vars

\* an update in magnetism mode has processed two particles spawned one
\* frame earlier with vy = 0: the one spawned at the magnet (the centre of
\* the canvas) still has vy = 0, the other has been pulled towards it
C15_Witness ==
    /\ lastCall.op = "update" /\ ~lastCall.audioBands.present
    /\ physics.mode = "magnetism"
    /\ physics.magnetX = width \div 2 /\ physics.magnetY = height \div 2
    /\ \E i, j \in 1..Len(particlePool) :
          /\ Processed(i) /\ born[i] = time - 1
          /\ particlePool[i].maxLife = 150 * FP
          /\ preBoundary[i].vy = 0
          /\ preBoundary[i].vx = Mul(2 * FP, physics.damping)
          /\ Processed(j) /\ born[j] = time - 1
          /\ particlePool[j].maxLife = 100 * FP
          /\ preBoundary[j].vy > 0

(***************************************************************************)
(* SpecControl: control writes with paths that resolve and paths that do   *)
(* not                                                                     *)
(***************************************************************************)
\* paths to an existing field, with a misspelt final key, with a misspelt
\* section, of one unknown segment, continuing below a number, and ending
\* in a name no configuration declares
ControlPaths ==
    {<<"physics", "gravityY">>, <<"physics", "gravity_y">>,
     <<"phisics", "gravityY">>, <<"gravityY">>,
     <<"physics", "gravityY", "x">>, <<"params", "maxParticles">>,
     <<"emission", "toString">>}

\* the value written: 0.25
ControlValue == FP \div 4

InitControl == Construct(MaxParticles)

ControlDefaultMappings == CreateDefaultMappings

ControlCC == \E cc \in {11, 32, 40} : \E value \in {0, CCMax} : HandleCC(cc, value)

ControlWrite ==
    \E path \in ControlPaths : \E object \in {"particleSystem", "renderer"} :
        SetParameter(path, ControlValue, object)

ControlEmit == \E draws \in [1..1 -> Draws] : Emit(FP, 0, draws)

NextControl == ControlDefaultMappings \/ ControlCC \/ ControlWrite \/ ControlEmit

SpecControl == InitControl /\ [][NextControl]_vars

\* the path names an existing field of a configuration of the target
Resolves(path, object) ==
    /\ Len(path) = 2
    /\ path[1] \in Sections(object)
    /\ path[2] \in DOMAIN (CASE path[1] = "physics" -> physics
                              [] path[1] = "emission" -> emission
                              [] path[1] = "audioReactive" -> audioReactive
                              [] path[1] = "params" -> params)

\* C16: a setParameter whose path does not resolve to an existing field of
\* the target (unknown intermediate segment or unknown final key) returns
\* normally, changes no field of any configuration and creates none.
C16_UnresolvedWriteDropped ==
    [][(/\ lastCall'.op = "setParameter"
        /\ ~Resolves(lastCall'.path, lastCall'.object)) =>
         /\ physics' = physics /\ DOMAIN physics' = DOMAIN physics
         /\ emission' = emission /\ DOMAIN emission' = DOMAIN emission
         /\ audioReactive' = audioReactive
         /\ params' = params /\ DOMAIN params' = DOMAIN params
         /\ width' = width /\ height' = height]_vars

(***************************************************************************)
(* SpecHue: the default mappings of hue, hue variation and hue shift       *)
(***************************************************************************)
InitHue == Construct(MaxParticles)

HueDefaultMappings == CreateDefaultMappings

HueCC == \E cc \in {9, 10, 24} : \E value \in {0, CCMax} : HandleCC(cc, value)

HueEmit == \E draws \in [1..1 -> Draws] : Emit(FP, 0, draws)

NextHue == HueDefaultMappings \/ HueCC \/ HueEmit

SpecHue == InitHue /\ [][NextHue]_vars

\* C20: every particle spawned by emit has a hue between 0 and 360, for
\* every base hue, hue variation and hue shift the default mappings write.
C20_HueInRange ==
    \A i \in 1..Len(particlePool) :
        born[i] >= 0 =>
            /\ particlePool[i].hue >= 0
            /\ particlePool[i].hue <= 360 * FP

(***************************************************************************)
(* Claims about the spatial index and the statistics                       *)
(***************************************************************************)
\* the number of entries of the index that name slot i
Occurrences(grid, i) ==
    Cardinality({e \in UNION {{<<key, k>> : k \in 1..Len(grid[key])} :
                                key \in DOMAIN grid} :
                    grid[e[1]][e[2]] = i})

\* C17: after every update the index holds exactly the particles active at
\* the end of the call, each once, in the bucket of the cell of its current
\* position, and no inactive particle.  Checked under SpecLife.
C17_IndexHoldsActive ==
    lastCall.op = "update" =>
        \A i \in 1..Len(particlePool) :
            /\ Occurrences(spatialHash, i) = IF particlePool[i].active THEN 1 ELSE 0
            /\ particlePool[i].active => InBucketOf(spatialHash, i, particlePool[i])

\* C19: after any sequence of emit, update and clear calls getStats reports
\* the number of pool slots whose active flag is true, and as utilization
\* that number over the capacity as a percentage.  Checked under Spec.
C19_StatsCountActive ==
    lastCall.op = "getStats" =>
        /\ lastCall.result.activeParticles = ActiveCount
        /\ lastCall.result.maxParticles = Len(particlePool)
        /\ lastCall.result.utilization
              = (ActiveCount * 1000 + Len(particlePool) \div 2) \div Len(particlePool)

(***************************************************************************)
(* SpecNearby: queries of the index between emit, update and clear calls,  *)
(* on a small canvas with the wrap policy switched off                     *)
(***************************************************************************)
\* the points queried: on the left edge, at the centre (where emit spawns)
\* and outside the canvas
QueryPoints == {<<0, 3 * (FP \div 2)>>, <<2 * FP, 3 * (FP \div 2)>>, <<-FP, FP>>}

\* the radii queried: 0 and 3
QueryRadii == {0, 3 * FP}

InitNearby == Construct(MaxParticles)

\* the canvas is sized first
NearbyResize ==
    /\ lastCall.op = "new"
    /\ SetDimensions(SmallWidth, SmallHeight)

\* the policy is switched off before the first update
NearbyWrapOff ==
    /\ time = 0
    /\ SetParameter(<<"physics", "wrapEnabled">>, 0, "particleSystem")

NearbyEmit ==
    /\ width = SmallWidth
    /\ \E draws \in [1..1 -> BoundaryDraws] : Emit(FP, 0, draws)

NearbyUpdate == time < MaxTime /\ Update(FP, NoBands)

\* the pool is cleared between frames
NearbyClear ==
    /\ lastCall.op = "update"
    /\ Clear

NearbyQuery ==
    \E point \in QueryPoints : \E radius \in QueryRadii :
        GetNearby(point[1], point[2], radius)

NextNearby ==
    \/ NearbyResize \/ NearbyWrapOff \/ NearbyEmit \/ NearbyUpdate
    \/ NearbyClear \/ NearbyQuery

SpecNearby == InitNearby /\ [][NextNearby]_vars

\* particle p lies within the radius of the query that has just returned
WithinRadius(p) ==
    (p.x - lastCall.x) * (p.x - lastCall.x) + (p.y - lastCall.y) * (p.y - lastCall.y)
        <= lastCall.radius * lastCall.radius

\* slot i is in the result of the query that has just returned
Returned(i) == \E k \in 1..Len(lastCall.result) : lastCall.result[k] = i

NoneTwice(result) ==
    \A k, l \in 1..Len(result) : result[k] = result[l] => k = l

\* C18 as stated: getNearby returns every particle of the index whose
\* distance to (x, y) is at most radius, at any position and for any
\* radius >= 0, and returns no particle twice.
C18_NearbySuperset ==
    lastCall.op = "getNearby" =>
        /\ \A i \in 1..Len(particlePool) :
               (Occurrences(spatialHash, i) > 0 /\ WithinRadius(particlePool[i]))
                   => Returned(i)
        /\ NoneTwice(lastCall.result)

\* C18 amended: getNearby returns every particle within the radius that the
\* index holds in the cell of its current position, and returns no particle
\* twice; a particle that emit has re-initialised since the index was built
\* is still filed under its old cell.
C18_NearbySupersetOfFiled ==
    lastCall.op = "getNearby" =>
        /\ \A i \in 1..Len(particlePool) :
               (/\ InBucketOf(spatialHash, i, particlePool[i])
                /\ WithinRadius(particlePool[i])) => Returned(i)
        /\ NoneTwice(lastCall.result)

\* a query at a point of cell (0, 0) with radius 3 has returned a particle
\* that lies within the radius at a negative x, in cell (-1, 0), along with
\* a particle farther away than the radius
C18_Witness ==
    /\ lastCall.op = "getNearby"
    /\ lastCall.x = 0 /\ lastCall.radius = 3 * FP
    /\ \E i, j \in 1..Len(particlePool) :
          /\ particlePool[i].x < 0
          /\ InBucketOf(spatialHash, i, particlePool[i])
          /\ WithinRadius(particlePool[i]) /\ Returned(i)
          /\ Returned(j) /\ ~WithinRadius(particlePool[j])

(***************************************************************************)
(* MIDI messages, learn mode and the mapped value                          *)
(***************************************************************************)
\* the status bytes explored: control change on channels 0 and 1, note on
StatusBytes == {176, 177, 144}

\* the data bytes explored: both ends and the middle of the range
DataBytes == {0, 64, CCMax}

\* the parameter learn mode is started for, with its range 0.1 to 0.5
LearnPath == <<"emission", "spread">>

LearnMin == FP \div 10

LearnMax == FP \div 2

MidiDefaultMappings == lastCall.op = "new" /\ CreateDefaultMappings

MidiLearn == Learn(LearnPath, "particleSystem", LearnMin, LearnMax)

MidiMessage ==
    \E status \in StatusBytes : \E data1 \in {11, 40} : \E data2 \in DataBytes :
        HandleMidiMessage(status, data1, data2)

NextMidi ==
    MidiDefaultMappings \/ MidiLearn \/ CancelLearn \/ MidiMessage
    \/ ActivityTimeout

SpecMidi == Init /\ [][NextMidi]_vars

\* the configuration field a two-segment path names
Field(path) ==
    CASE path[1] = "physics" -> physics[path[2]]
      [] path[1] = "emission" -> emission[path[2]]
      [] path[1] = "audioReactive" -> audioReactive[path[2]]
      [] path[1] = "params" -> params[path[2]]

\* the same field once the step is taken
FieldAfter(path) ==
    CASE path[1] = "physics" -> physics'[path[2]]
      [] path[1] = "emission" -> emission'[path[2]]
      [] path[1] = "audioReactive" -> audioReactive'[path[2]]
      [] path[1] = "params" -> params'[path[2]]

\* every parameter a control change can reach
Parameters == <<physics, emission, audioReactive, params>>

\* handleCC's learn branch is about to run
Learning == learn.mode /\ learn.parameter # <<>>

\* C21: outside learn mode, a control change on a mapped CC whose path
\* resolves leaves the parameter at min + (v / 127) * (max - min), to the
\* model's resolution of 0.001: data byte 0 gives min, 127 gives max, the
\* value is within [min, max] and no smaller than what a smaller data byte
\* gives; a control change on an unmapped CC changes no parameter
C21_MappedValueInRange ==
    [][lastCall'.op = "handleCC" /\ ~Learning =>
          LET cc == lastCall'.cc
              value == lastCall'.value
          IN IF cc \in DOMAIN mappings
             THEN LET m == mappings[cc]
                      written == FieldAfter(m.parameter)
                  IN Resolves(m.parameter, m.object) /\ m.min <= m.max =>
                        /\ value = 0 => written = m.min
                        /\ value = CCMax => written = m.max
                        /\ m.min <= written /\ written <= m.max
                        /\ CCMax * (written - m.min) <= value * (m.max - m.min)
                        /\ value * (m.max - m.min) < CCMax * (written - m.min + 1)
                        /\ \A w \in 0..value : MappedValue(m, w) <= written
             ELSE Parameters' = Parameters /\ particlePool' = particlePool]_vars

C21_Witness ==
    /\ lastCall.op = "handleCC"
    /\ lastCall.cc = 11
    /\ lastCall.value = CCMax
    /\ 11 \in DOMAIN mappings
    /\ mappings[11].parameter = <<"physics", "gravityY">>
    /\ physics.gravityY = FP \div 2
    /\ activity.lastCC = 11

\* C22: learn starts learn mode and cancelLearn ends it; a control change
\* received in learn mode maps its CC to the learn parameter with the learn
\* range, leaves every other mapping alone, ends learn mode and leaves the
\* parameter at the value mapped from its data byte; a control change
\* received outside learn mode leaves the mappings as they were
C22_LearnProtocol ==
    [][/\ lastCall'.op = "learn" => learn'.mode
       /\ lastCall'.op = "cancelLearn" => ~learn'.mode
       /\ lastCall'.op = "handleCC" =>
             IF Learning
             THEN /\ lastCall'.cc \in DOMAIN mappings'
                  /\ mappings'[lastCall'.cc] =
                        [parameter |-> learn.parameter, object |-> learn.object,
                         min |-> learn.min, max |-> learn.max]
                  /\ \A c \in DOMAIN mappings' \ {lastCall'.cc} :
                        c \in DOMAIN mappings /\ mappings'[c] = mappings[c]
                  /\ ~learn'.mode
                  /\ CCMax * (FieldAfter(learn.parameter) - learn.min)
                        <= lastCall'.value * (learn.max - learn.min)
                  /\ lastCall'.value * (learn.max - learn.min)
                        < CCMax * (FieldAfter(learn.parameter) - learn.min + 1)
             ELSE mappings' = mappings /\ ~learn'.mode]_vars

C22_Witness ==
    /\ lastCall.op = "handleCC"
    /\ lastCall.cc = 40
    /\ lastCall.value = CCMax
    /\ 40 \in DOMAIN mappings
    /\ mappings[40] = [parameter |-> LearnPath, object |-> "particleSystem",
                       min |-> LearnMin, max |-> LearnMax]
    /\ emission.spread = LearnMax
    /\ ~learn.mode

(***************************************************************************)
(* Emission counts                                                         *)
(***************************************************************************)
\* the counts explored: -1, 0, 1, 1.5 and the whole counts up to MaxEmit
EmitCounts == {-FP, (3 * FP) \div 2} \cup {c * FP : c \in 0..MaxEmit}

\* the audio energies explored: silence and full level
EmitEnergies == {0, FP}

BurstShortLife ==
    /\ lastCall.op = "new"
    /\ SetParameter(<<"emission", "lifeMin">>, ShortLife, "particleSystem")

BurstEmit ==
    \E count \in EmitCounts : \E audioEnergy \in EmitEnergies :
        \E draw \in Draws :
            Emit(count, audioEnergy,
                 [k \in 1..Max(0, ActualCount(count, audioEnergy)) |-> draw])

BurstUpdate ==
    /\ time < MaxTime
    /\ Update(FP, NoBands)

NextBurst == BurstShortLife \/ BurstEmit \/ BurstUpdate

SpecBurst == Init /\ [][NextBurst]_vars

\* the slots of a pool that hold no active particle
InactiveSlots(pool) == {i \in 1..Len(pool) : ~pool[i].active}

\* C23: an emit step activates min(max(0, floor(count * (1 + audioEnergy *
\* emissionMultiplier))), inactive slots) particles, all in slots that were
\* inactive, and no inactive slot below an activated one is left inactive
C23_EmitFillsLowestSlots ==
    [][lastCall'.op = "emit" =>
          LET free == InactiveSlots(particlePool)
              wanted == (lastCall'.count *
                           (FP + Mul(lastCall'.audioEnergy,
                                     audioReactive.emissionMultiplier)))
                        \div (FP * FP)
              activated == {i \in 1..Len(particlePool') : particlePool'[i].active}
                           \ {i \in 1..Len(particlePool) : particlePool[i].active}
          IN /\ activated \subseteq free
             /\ Cardinality(activated) = Min(Max(0, wanted), Cardinality(free))
             /\ \A i \in activated : \A j \in free : j < i => j \in activated]_vars

\* an emit of 2 at full energy asked for 4 particles and got the one slot
\* that was free, below a slot that is still held by an older particle
C23_Witness ==
    /\ lastCall.op = "emit"
    /\ lastCall.count = 2 * FP
    /\ lastCall.audioEnergy = FP
    /\ AllActive
    /\ \E i, j \in 1..Len(particlePool) :
          i < j /\ born[i] = time /\ born[j] >= 0 /\ born[j] < time

(***************************************************************************)
(* One frame: forces, audio input and retirement together                  *)
(***************************************************************************)
\* a second valid vector: bass, mid and treble as in SevenBands, the four
\* other bands at full level
SevenBandsLoud == <<FP, FP, FP, FP \div 2, FP, FP, FP>>

FrameResize ==
    /\ lastCall.op = "new"
    /\ SetDimensions(SmallWidth, SmallHeight)

FrameMode ==
    /\ lastCall.op = "setDimensions"
    /\ \E mode \in ValidModes : SetPhysicsMode(mode)

FrameShortLife ==
    /\ lastCall.op \in {"setDimensions", "setPhysicsMode"}
    /\ SetParameter(<<"emission", "lifeMin">>, ShortLife, "particleSystem")

FrameEmit ==
    /\ width = SmallWidth
    /\ lastCall.op # "emit"
    /\ \E draws \in [1..1 -> ForceDraws] : Emit(FP, 0, draws)

FrameUpdate ==
    /\ time < MaxTime
    /\ \E bands \in {NoBands, Bands(SevenBands), Bands(SevenBandsLoud)} :
          Update(FP, bands)

FrameClear == lastCall.op = "update" /\ Clear

NextFrame ==
    \/ FrameResize \/ FrameMode \/ FrameShortLife \/ FrameEmit \/ FrameUpdate
    \/ FrameClear

SpecFrame == Init /\ [][NextFrame]_vars

\* C24: between engine calls every pool slot has ax = 0 and ay = 0
C24_AccelerationZero ==
    \A i \in 1..Len(particlePool) :
        particlePool[i].ax = 0 /\ particlePool[i].ay = 0

\* the update that just ended pulled particles towards the magnet and
\* retired one of them, next to a slot that was spawned after it
C24_Witness ==
    /\ lastCall.op = "update"
    /\ physics.mode = "magnetism"
    /\ \E i, j \in 1..Len(particlePool) :
          /\ ~particlePool[i].active
          /\ particlePool[i].life <= 0
          /\ particlePool[i].life > -LifeDecay
          /\ born[i] >= 0
          /\ particlePool[j].active
          /\ born[j] > born[i]

\* a valid vector with every band update does not read silenced
OnlyRead(bands) ==
    [bands EXCEPT !.data = [k \in 1..Len(bands.data) |->
                               IF k \in {2, 4, 6} THEN bands.data[k] ELSE 0]]

\* C25: an update step with a 7-element vector leaves the pool and the
\* index exactly as the same call from the same state with every band but
\* bass, mid and treble silenced would: the four other bands do not count
C25_ReadsBassMidTreble ==
    [][lastCall'.op = "update" /\ SevenLong(lastCall'.audioBands) =>
          LET read == OnlyRead(lastCall'.audioBands)
              pool == [i \in 1..Len(particlePool) |->
                          IF particlePool[i].active
                          THEN HandleBoundaries(
                                   Integrate(particlePool[i],
                                             lastCall'.deltaTime, read))
                          ELSE particlePool[i]]
          IN /\ particlePool' = pool
             /\ spatialHash' = InsertFrom(EmptyGrid, particlePool, pool, 1)
             /\ UNCHANGED <<maxParticles, engineConfig>>]_vars

\* an update with the loud vector acted on a particle spawned just before
\* it: the mid band has grown its size by a tenth
C25_Witness ==
    /\ lastCall.op = "update"
    /\ lastCall.audioBands = Bands(SevenBandsLoud)
    /\ \E i \in 1..Len(particlePool) : \E r \in {0, FP \div 2} :
          /\ particlePool[i].active
          /\ born[i] = time - 1
          /\ particlePool[i].size =
                Mul(emission.sizeMin + Mul(r, emission.sizeMax - emission.sizeMin),
                    FP + FP \div 10)

(***************************************************************************)
(* Mappings that lead into the particle pool                               *)
(***************************************************************************)
\* a mapping list as a preset file holds it: CC 40 on the x coordinate of
\* the first pool slot, CC 41 on the gravity
PoolMappings ==
    JsonArray(<<JsonMapping(40, <<"particlePool", "0", "x">>, 0, FP),
                JsonMapping(41, <<"physics", "gravityY">>, 0, FP)>>)

\* the mappings are installed before the first frame
OwnerLoad == time = 0 /\ LoadMappings(PoolMappings, "particleSystem")

OwnerImport ==
    /\ time = 0
    /\ ImportMappings(JsonStringify(PoolMappings), "particleSystem")

OwnerMap ==
    /\ time = 0
    /\ Map(42, <<"particlePool", "1", "life">>, "particleSystem", 0, FP)

OwnerEmit == \E draws \in [1..1 -> Draws] : Emit(FP, 0, draws)

OwnerUpdate == time < MaxTime /\ Update(FP, NoBands)

\* control changes arrive between frames
OwnerMessage ==
    /\ lastCall.op = "update"
    /\ \E cc \in {40, 41, 42} : HandleMidiMessage(ControlChange, cc, CCMax)

NextOwner ==
    \/ OwnerLoad \/ OwnerImport \/ OwnerMap \/ OwnerEmit \/ OwnerUpdate
    \/ OwnerMessage

SpecOwner == Init /\ [][NextOwner]_vars

\* C26: no control change alters the particle pool or the spatial index
C26_PoolOwnedByEngine ==
    [][lastCall'.op = "handleCC" =>
          particlePool' = particlePool /\ spatialHash' = spatialHash]_vars

(***************************************************************************)
(* Presets: export and import of the mappings                              *)
(***************************************************************************)
\* a well-formed preset of one mapping
GoodPreset ==
    JsonArray(<<JsonMapping(41, <<"physics", "gravityY">>, 0, FP)>>)

\* a list whose second item is null
HalfPreset ==
    JsonArray(<<JsonMapping(41, <<"physics", "gravityY">>, 0, FP), JsonNull>>)

\* the texts explored: no JSON at all, the texts {} and null, a list with
\* a null item, a well-formed list
PresetTexts ==
    {BrokenText, JsonStringify(JsonObject), JsonStringify(JsonNull),
     JsonStringify(HalfPreset), JsonStringify(GoodPreset)}

PresetMap ==
    \E cc \in {40, 41} :
        \E path \in {<<"physics", "gravityY">>, <<"emission", "spread">>} :
            Map(cc, path, "particleSystem", 0, FP)

PresetUnmap == \E cc \in {11, 40} : Unmap(cc)

PresetImport ==
    \E json \in PresetTexts : ImportMappings(json, "particleSystem")

\* the text exportMappings just returned is imported again
PresetRestore ==
    /\ lastCall.op = "exportMappings"
    /\ ImportMappings(lastCall.result, "particleSystem")

NextPreset ==
    \/ CreateDefaultMappings \/ PresetMap \/ PresetUnmap \/ ExportMappings
    \/ PresetImport \/ PresetRestore

SpecPreset == Init /\ [][NextPreset]_vars

\* C29: an importMappings call that returns false leaves the mappings as
\* they were before the call
C29_FailedImportKeepsMappings ==
    [][lastCall'.op = "importMappings" /\ ~lastCall'.result =>
          mappings' = mappings]_vars

\* what holds of the same code: a rejected text leaves the mappings alone,
\* a call that returns true has loaded every item of the list, and the
\* text exportMappings returned restores cc, parameter, min and max of
\* every mapping
PresetRoundTrip ==
    [][lastCall'.op = "importMappings" =>
          /\ lastCall'.json.syntax = "broken" =>
                ~lastCall'.result /\ mappings' = mappings
          /\ lastCall'.result =>
                \A k \in 1..Len(lastCall'.json.value.items) :
                    lastCall'.json.value.items[k].cc \in DOMAIN mappings'
          /\ lastCall.op = "exportMappings" /\ lastCall'.json = lastCall.result =>
                /\ lastCall'.result
                /\ getMappings(mappings') = getMappings(mappings)]_vars

(***************************************************************************)
(* EventEmitter                                                            *)
(***************************************************************************)
\* the event names and the listener functions explored
EventNames == {"beat", "kick"}

Listeners == {"f", "g"}

EventsOn ==
    \E event \in EventNames : \E listener \in Listeners :
        /\ Len(ListenersOf(events, event)) < MaxListeners
        /\ On(event, listener)

EventsOnce ==
    \E event \in EventNames : \E listener \in Listeners :
        /\ Len(ListenersOf(events, event)) < MaxListeners
        /\ Once(event, listener)

EventsOff ==
    \E event \in EventNames : \E listener \in Listeners : Off(event, listener)

EventsEmit == \E event \in EventNames : EmitEvent(event)

NextEvents == EventsOn \/ EventsOnce \/ EventsOff \/ EventsEmit

SpecEvents == Init /\ [][NextEvents]_vars

\* C28: emit has invoked the listeners that were registered for the event
\* when it was called, each once and in registration order
C28_EveryListenerInvoked ==
    lastCall.op = "emitEvent" => lastCall.invoked = lastCall.registered

(***************************************************************************)
(* AudioEngine: sources that start asynchronously                          *)
(***************************************************************************)
\* the levels the analyser reports
Levels == {0, FP \div 2, FP}

AudioAnalyze == \E level \in Levels : Analyze(level)

NextAudio ==
    \/ StartMicrophone \/ MicrophoneGranted \/ MicrophoneDenied
    \/ LoadFile \/ FileDecoded \/ FileRejected \/ Stop
    \/ AudioAnalyze

SpecAudio == Init /\ [][NextAudio]_vars

\* C30: once stop() has returned and no startMicrophone or loadFile was
\* called since, isPlaying is false and source is null
C30_StoppedStaysStopped ==
    audio.stopped => ~audio.isPlaying /\ audio.source = "null"

(***************************************************************************)
(* Retirement under repeated updates                                       *)
(***************************************************************************)
\* the calls of update with deltaTime >= 1 after which the longest-lived
\* particle spawned here, of life 0.025, is retired
DecayCalls == LastCall(ShortLife + (ShortLifeMax - ShortLife) \div 2)

DecayResize ==
    /\ lastCall.op = "new"
    /\ SetDimensions(SmallWidth, SmallHeight)

DecayLifeMin ==
    /\ lastCall.op = "setDimensions"
    /\ SetParameter(<<"emission", "lifeMin">>, ShortLife, "particleSystem")

DecayLifeMax ==
    /\ lastCall.op = "setParameter"
    /\ emission.lifeMin = ShortLife
    /\ emission.lifeMax # ShortLifeMax
    /\ SetParameter(<<"emission", "lifeMax">>, ShortLifeMax, "particleSystem")

DecayMode ==
    /\ emission.lifeMax = ShortLifeMax
    /\ lastCall.op = "setParameter"
    /\ \E mode \in ValidModes : SetPhysicsMode(mode)

DecayBounce ==
    /\ emission.lifeMax = ShortLifeMax
    /\ lastCall.op \in {"setParameter", "setPhysicsMode"}
    /\ physics.bounceEnabled = 0
    /\ SetParameter(<<"physics", "bounceEnabled">>, FP, "particleSystem")

\* particles are spawned short-lived and early enough to be retired within
\* MaxTime calls
DecayEmit ==
    /\ emission.lifeMax = ShortLifeMax
    /\ time + DecayCalls <= MaxTime
    /\ \E draws \in [1..1 -> ForceDraws] : Emit(FP, 0, draws)

DecayUpdate ==
    /\ time < MaxTime
    /\ \E deltaTime \in {FP, 2 * FP} : \E bands \in {NoBands, Bands(SevenBands)} :
          Update(deltaTime, bands)

NextDecay ==
    \/ DecayResize \/ DecayLifeMin \/ DecayLifeMax \/ DecayMode \/ DecayBounce
    \/ DecayEmit \/ DecayUpdate

\* update's first statement, this.time++: among the steps of NextDecay it
\* is DecayUpdate alone that advances time, and it can whenever this can
DecayTick == time < MaxTime /\ time' = time + 1

\* update is called again and again: the frame loop does not stop while
\* another call is possible
SpecDecay == Init /\ [][NextDecay]_vars /\ WF_time(DecayTick)

\* C27: under repeated update calls every active particle becomes inactive;
\* update leaves every field of an inactive slot as it was, and only emit
\* makes an inactive slot active
C27_EveryParticleRetires ==
    /\ \A i \in 1..MaxParticles :
          (i <= Len(particlePool) /\ particlePool[i].active)
             ~> (i <= Len(particlePool) /\ ~particlePool[i].active)
    /\ [][/\ lastCall'.op = "update" =>
               \A i \in 1..Len(particlePool) :
                   ~particlePool[i].active => particlePool'[i] = particlePool[i]
          /\ lastCall'.op # "emit" =>
               \A i \in 1..Len(particlePool) :
                   ~particlePool[i].active => ~particlePool'[i].active]_vars

\* a particle pushed by a mode force against a bouncing boundary with a
\* valid audio vector has been retired, and another one before it
C27_Witness ==
    /\ lastCall.op = "update"
    /\ SevenLong(lastCall.audioBands)
    /\ physics.bounceEnabled = FP
    /\ physics.mode # "gravity"
    /\ \A i \in 1..Len(particlePool) :
          born[i] >= 0 /\ ~particlePool[i].active /\ particlePool[i].life <= 0

=============================================================================
